---- MODULE Spec2Model ----
(***************************************************************************)
(* Flight announcer: the LED-matrix display controller (double buffering   *)
(* with dirty-pixel tracking), the main polling loop with the celebration  *)
(* sequence, and the time-driven display engine (alternator, scroll        *)
(* animator, row resolver).                                                *)
(*                                                                         *)
(* Texts are sequences of one-character strings ("UAL" is <<"U","A","L">>),*)
(* colours are RGB triples, a buffer is buffer[y][x] as in the source.     *)
(***************************************************************************)
EXTENDS Integers, Sequences, FiniteSets, TLC

(***************************************************************************)
(* Bounds of the model.                                                    *)
(***************************************************************************)
\* config.DISPLAY_WIDTH (config.py:84, 128 on the panel), scaled down.
DISPLAY_WIDTH == 6
\* config.DISPLAY_HEIGHT (config.py:85, 32 on the panel), scaled down.
DISPLAY_HEIGHT == 4
\* Longest sequence of display-controller operations explored by SpecDisplay.
MaxOps == 3

\* Number of iterations of the main loop
MaxIterations == 3

\* config.py
FLIGHT_POLL_INTERVAL == 20
WEATHER_REFRESH_INTERVAL == 300
\* config.DISPLAY_WIDTH as the engine's maximum row width in pixels
ENGINE_WIDTH == 128

\* Engine time units to the second (a unit is 50 ms)
UnitsPerSecond == 20

\* Number of queries of the display engine
MaxCalls == 4

\* Number of groups a METAR given to the parsers is put together from
MaxGroups == 4

\* Longest text given to _draw_text_to_buffer in SpecText
MaxTextLen == 3

\* Longest text given to truncateToWidth in SpecLayout
MaxTruncLen == 5

\* Number of entries of a response of the flight feed
MaxEntries == 3

\* config.MAX_APPROACH_ALTITUDE
MAX_APPROACH_ALTITUDE == 5000

\* Number of record_flight calls made on the tracker
MaxRecords == 4

\* How far outside the display the end points given to draw_line lie
LineMargin == 1

VARIABLES
    \* DisplayController fields
    hardware_ready,   \* self.hardware_ready
    front_buffer,     \* self.front_buffer[y][x]
    back_buffer,      \* self.back_buffer[y][x]
    dirty_pixels,     \* self.dirty_pixels, a set of <<x, y>>
    dirty_regions,    \* self.dirty_regions, a list of <<x, y, width, height>>
    matrix,           \* the panel: the colour last given to matrix.SetPixel(x, y, ...)
    \* observation of the last operation
    op,               \* name of the last operation performed
    written,          \* coordinates written into the back buffer since the last swap
    hw_writes,        \* the SetPixel calls <<x, y, colour>> of the last swap
    hw_before,        \* the panel as it was before the last swap
    presented,        \* the frames presented (one per swap) by the last operation
    calls,            \* the text / icon / sprite draw calls of the last operation
    arg,              \* the record given to the last operation (NoneData if none)
    nops,             \* number of operations performed (bounded by MaxOps)
    \* FlightAnnouncer fields and the main loop
    running,              \* self.running
    plane_detected,       \* self.plane_detected
    current_plane_data,   \* self.current_plane_data
    weather_data,         \* self.weather_data
    last_plane_check,     \* self.last_plane_check
    last_weather_update,  \* self.last_weather_update
    current_time,         \* current_time of the iteration in progress
    now,                  \* time.time()
    pc,                   \* position of the main loop
    poll_result,          \* what the last flight poll returned
    last_reported,        \* history: what the last flight poll that returned gave
    celebrations,         \* flight_id of every celebration started so far
    celebrating,          \* calls of show_plane_celebration that have not returned
    stats,                \* flight_id of every flight given to stats_tracker.record_flight
    npolls,               \* number of flight polls performed
    iterations,           \* number of loop iterations started (bounded by MaxIterations)
    \* the display engine and its caller
    alt_candidates,   \* the candidate list given to alternating_text
    alt_dwell,        \* the dwell time given to alternating_text
    line1_scroll,     \* ScrollState of row 0
    line2_scroll,     \* ScrollState of row 1
    line3_scroll,     \* ScrollState of row 2
    last,             \* inputs and results of the last query
    reference,        \* inputs and results of an earlier query, kept for comparison
    repeated,         \* the last query had the inputs of the query right before it
    stable,           \* ... and returned the same rows
    ncalls,           \* number of queries made (bounded by MaxCalls)
    \* the scroll animator of one row and its caller
    scroll_state,        \* the ScrollState of the row
    scroll_text,         \* the text given to the last call of getVisibleSlice
    scroll_width,        \* maxWidthPixels of the row
    scroll_loop,         \* the row restarts after PauseEnd (TRUE) or completes (FALSE)
    scroll_now,          \* the time of the last call
    scroll_first,        \* the time of the first render of the text
    scroll_slice,        \* the slice returned by the last call
    scroll_calls,        \* calls made with the text, counted up to 3
    scroll_interrupted,  \* the phase the text before was in when the text changed
    \* the METAR parsers and their caller
    metar_text,          \* the METAR received so far (None: absent)
    metar_ntokens,       \* number of groups it was put together from
    metar_parsed,        \* what the parsers returned for it (NoneData: not parsed yet)
    \* a second display controller, without a panel
    twin,                \* the controller: its buffers, dirty set and region list
    \* the text layout primitive
    layout,              \* the last truncation: text, width, result and result again
    \* flight_logic.get_approaching_flights
    feed,                \* the response of the flight feed and what was returned for it
    \* FlightStatsTracker
    tracker,             \* the lock, the two tables, the clock and the calls in progress
    line                 \* the call of draw_line in progress: its locals and its buffers

dcvars == <<hardware_ready, front_buffer, back_buffer, dirty_pixels, dirty_regions,
            matrix, op, written, hw_writes, hw_before, presented, calls, arg, nops>>

mainvars == <<running, plane_detected, current_plane_data, weather_data, last_plane_check,
              last_weather_update, current_time, now, pc, poll_result, last_reported, celebrations,
              stats, npolls, iterations, celebrating>>

engvars == <<alt_candidates, alt_dwell, line1_scroll, line2_scroll, line3_scroll, last,
             reference, repeated, stable, ncalls>>

scrollvars == <<scroll_state, scroll_text, scroll_width, scroll_loop, scroll_now,
                scroll_first, scroll_slice, scroll_calls, scroll_interrupted>>

metarvars == <<metar_text, metar_ntokens, metar_parsed>>

vars == <<dcvars, mainvars, engvars, scrollvars, metarvars, twin, layout, feed, tracker, line>>

(***************************************************************************)
(* Python helpers.                                                         *)
(***************************************************************************)
\* range(n)
Range(n) == 0 .. (n - 1)

Abs(n) == IF n < 0 THEN -n ELSE n

RECURSIVE Pow2(_)
Pow2(n) == IF n = 0 THEN 1 ELSE 2 * Pow2(n - 1)

\* value & (1 << bit) is non-zero
BitSet(value, bit) == (value \div Pow2(bit)) % 2 = 1

LowerCase == <<"a","b","c","d","e","f","g","h","i","j","k","l","m",
               "n","o","p","q","r","s","t","u","v","w","x","y","z">>
UpperCase == <<"A","B","C","D","E","F","G","H","I","J","K","L","M",
               "N","O","P","Q","R","S","T","U","V","W","X","Y","Z">>

\* str.upper() on one character
UpperChar(ch) ==
    IF \E i \in DOMAIN LowerCase : LowerCase[i] = ch
    THEN UpperCase[CHOOSE i \in DOMAIN LowerCase : LowerCase[i] = ch]
    ELSE ch

\* str.upper()
Upper(text) == [i \in DOMAIN text |-> UpperChar(text[i])]

(***************************************************************************)
(* The display controller (display_controller.py).                         *)
(***************************************************************************)
Black == <<0, 0, 0>>

Coords == Range(DISPLAY_WIDTH) \X Range(DISPLAY_HEIGHT)

InBounds(x, y) == 0 <= x /\ x < DISPLAY_WIDTH /\ 0 <= y /\ y < DISPLAY_HEIGHT

\* [[(0, 0, 0) for _ in range(width)] for _ in range(height)]
BlankBuffer == [y \in Range(DISPLAY_HEIGHT) |-> [x \in Range(DISPLAY_WIDTH) |-> Black]]

\* The controller as a value: the operations below are functions from
\* controller to controller, composed in the order the source calls them.
DC == [front |-> front_buffer, back |-> back_buffer, dirty |-> dirty_pixels,
       regions |-> dirty_regions, hw |-> matrix, ready |-> hardware_ready,
       written |-> written, hw_writes |-> hw_writes, hw_before |-> hw_before,
       presented |-> <<>>, calls |-> <<>>]

\* DisplayController.__init__ / _init_buffers
InitDC(ready) ==
    [front |-> BlankBuffer, back |-> BlankBuffer, dirty |-> {}, regions |-> <<>>,
     hw |-> BlankBuffer, ready |-> ready, written |-> {}, hw_writes |-> {},
     hw_before |-> BlankBuffer, presented |-> <<>>, calls |-> <<>>]

\* Mutant of SetPixelBuffer: the coordinate is marked dirty before the bounds check
SetPixelBufferMarksOutside(S, x, y, color) ==
    IF InBounds(x, y)
    THEN [S EXCEPT !.back[y][x] = color,
                   !.dirty = @ \cup {<<x, y>>},
                   !.written = @ \cup {<<x, y>>}]
    ELSE [S EXCEPT !.dirty = @ \cup {<<x, y>>}]

\* Mutant of SetPixelBuffer: the pixel is written to the buffer on display
SetPixelBufferFront(S, x, y, color) ==
    IF InBounds(x, y)
    THEN [S EXCEPT !.front[y][x] = color,
                   !.dirty = @ \cup {<<x, y>>},
                   !.written = @ \cup {<<x, y>>}]
    ELSE S

\* Mutant of SetPixelBuffer: the pixel is written but not marked dirty
SetPixelBufferNotMarked(S, x, y, color) ==
    IF InBounds(x, y)
    THEN [S EXCEPT !.back[y][x] = color, !.written = @ \cup {<<x, y>>}]
    ELSE S

\* _set_pixel_buffer(x, y, color) on the back buffer
SetPixelBuffer(S, x, y, color) ==
    IF InBounds(x, y)
    THEN [S EXCEPT !.back[y][x] = color,
                   !.dirty = @ \cup {<<x, y>>},
                   !.written = @ \cup {<<x, y>>}]
    ELSE S

\* A run of _set_pixel_buffer calls, one per element of pix (a set of
\* <<x, y, color>> holding each coordinate at most once, so the order of the
\* calls does not matter).
SetPixels(S, pix) ==
    LET inb == {p \in pix : InBounds(p[1], p[2])}
        pts == {<<p[1], p[2]>> : p \in inb}
        at(x, y) == CHOOSE p \in inb : p[1] = x /\ p[2] = y
    IN [S EXCEPT
          !.back = [y \in Range(DISPLAY_HEIGHT) |-> [x \in Range(DISPLAY_WIDTH) |->
                      IF <<x, y>> \in pts THEN at(x, y)[3] ELSE S.back[y][x]]],
          !.dirty = @ \cup pts,
          !.written = @ \cup pts]

\* Mutant of ClearBuffer: the buffer on display is blanked instead of the back buffer
ClearBufferFront(S) ==
    [S EXCEPT !.front = BlankBuffer,
              !.dirty = @ \cup Coords,
              !.written = @ \cup Coords]

\* Mutant of ClearBuffer: the buffer is blanked and the dirty set left as it is
ClearBufferNotMarked(S) ==
    [S EXCEPT !.back = BlankBuffer, !.written = @ \cup Coords]

\* _clear_buffer() on the back buffer
ClearBuffer(S) ==
    [S EXCEPT !.back = BlankBuffer,
              !.dirty = @ \cup Coords,
              !.written = @ \cup Coords]

\* get_pixel(x, y): the colour in the front buffer, (0, 0, 0) outside the display
GetPixel(S, x, y) == IF InBounds(x, y) THEN S.front[y][x] ELSE Black

\* _add_dirty_region(x, y, width, height)
AddDirtyRegion(S, x, y, width, height) ==
    [S EXCEPT !.regions = Append(@, <<x, y, width, height>>),
              !.dirty = @ \cup {p \in {<<x + dx, y + dy>> : dx \in Range(width),
                                                            dy \in Range(height)} :
                                  InBounds(p[1], p[2])}]

\* Mutant of SwapBuffers: every pixel of the back buffer is sent to the panel
SwapBuffersFullUpdate(S) ==
    LET writes == IF S.ready
                  THEN {<<c[1], c[2], S.back[c[2]][c[1]]>> : c \in Coords}
                  ELSE {}
    IN [S EXCEPT
          !.hw = IF S.ready THEN S.back ELSE S.hw,
          !.front = S.back,
          !.back = S.front,
          !.dirty = {},
          !.regions = <<>>,
          !.written = {},
          !.hw_writes = writes,
          !.hw_before = S.hw,
          !.presented = Append(@, S.back)]

\* Mutant of SwapBuffers: without a panel the dirty set is kept
SwapBuffersHeadlessKeepsDirty(S) ==
    LET writes == IF S.ready
                  THEN {<<c[1], c[2], S.back[c[2]][c[1]]>> :
                           c \in {d \in S.dirty : InBounds(d[1], d[2])}}
                  ELSE {}
    IN [S EXCEPT
          !.hw = [y \in Range(DISPLAY_HEIGHT) |-> [x \in Range(DISPLAY_WIDTH) |->
                    IF \E w \in writes : w[1] = x /\ w[2] = y
                    THEN S.back[y][x] ELSE S.hw[y][x]]],
          !.front = S.back,
          !.back = S.front,
          !.dirty = IF S.ready THEN {} ELSE S.dirty,
          !.regions = <<>>,
          !.written = {},
          !.hw_writes = writes,
          !.hw_before = S.hw,
          !.presented = Append(@, S.back)]

\* _swap_buffers()
SwapBuffers(S) ==
    LET writes == IF S.ready
                  THEN {<<c[1], c[2], S.back[c[2]][c[1]]>> :
                           c \in {d \in S.dirty : InBounds(d[1], d[2])}}
                  ELSE {}
    IN [S EXCEPT
          !.hw = [y \in Range(DISPLAY_HEIGHT) |-> [x \in Range(DISPLAY_WIDTH) |->
                    IF \E w \in writes : w[1] = x /\ w[2] = y
                    THEN S.back[y][x] ELSE S.hw[y][x]]],
          !.front = S.back,
          !.back = S.front,
          !.dirty = {},
          !.regions = <<>>,
          !.written = {},
          !.hw_writes = writes,
          !.hw_before = S.hw,
          !.presented = Append(@, S.back)]

\* clear_display()
ClearDisplay(S) == SwapBuffers(ClearBuffer(S))


(***************************************************************************)
(* Drawing into the back buffer.                                           *)
(***************************************************************************)
\* patterns: the 5x8 font, one <<character, rows>> pair per glyph; a row is 5 bits,
\* bit 4 the leftmost column. "ARROW" and "DEG" stand for the characters U+2192 and U+00B0.
GlyphTable ==
    <<<<"0", <<31, 17, 17, 17, 17, 17, 17, 31>>>>,
      <<"1", <<4, 12, 4, 4, 4, 4, 4, 31>>>>,
      <<"2", <<31, 1, 1, 31, 16, 16, 16, 31>>>>,
      <<"3", <<31, 1, 1, 31, 1, 1, 1, 31>>>>,
      <<"4", <<17, 17, 17, 31, 1, 1, 1, 1>>>>,
      <<"5", <<31, 16, 16, 31, 1, 1, 1, 31>>>>,
      <<"6", <<31, 16, 16, 31, 17, 17, 17, 31>>>>,
      <<"7", <<31, 1, 1, 2, 4, 8, 8, 8>>>>,
      <<"8", <<31, 17, 17, 31, 17, 17, 17, 31>>>>,
      <<"9", <<31, 17, 17, 31, 1, 1, 1, 31>>>>,
      <<"A", <<31, 17, 17, 31, 17, 17, 17, 17>>>>,
      <<"B", <<30, 17, 17, 30, 17, 17, 17, 30>>>>,
      <<"C", <<31, 16, 16, 16, 16, 16, 16, 31>>>>,
      <<"D", <<30, 17, 17, 17, 17, 17, 17, 30>>>>,
      <<"E", <<31, 16, 16, 31, 16, 16, 16, 31>>>>,
      <<"F", <<31, 16, 16, 31, 16, 16, 16, 16>>>>,
      <<"G", <<31, 16, 16, 23, 17, 17, 17, 31>>>>,
      <<"H", <<17, 17, 17, 31, 17, 17, 17, 17>>>>,
      <<"I", <<31, 4, 4, 4, 4, 4, 4, 31>>>>,
      <<"J", <<31, 1, 1, 1, 1, 17, 17, 31>>>>,
      <<"K", <<17, 18, 20, 24, 20, 18, 17, 17>>>>,
      <<"L", <<16, 16, 16, 16, 16, 16, 16, 31>>>>,
      <<"M", <<17, 27, 21, 17, 17, 17, 17, 17>>>>,
      <<"N", <<17, 25, 21, 21, 19, 17, 17, 17>>>>,
      <<"O", <<31, 17, 17, 17, 17, 17, 17, 31>>>>,
      <<"P", <<31, 17, 17, 31, 16, 16, 16, 16>>>>,
      <<"Q", <<31, 17, 17, 17, 21, 19, 17, 31>>>>,
      <<"R", <<31, 17, 17, 31, 20, 18, 17, 17>>>>,
      <<"S", <<31, 16, 16, 31, 1, 1, 1, 31>>>>,
      <<"T", <<31, 4, 4, 4, 4, 4, 4, 4>>>>,
      <<"U", <<17, 17, 17, 17, 17, 17, 17, 31>>>>,
      <<"V", <<17, 17, 17, 17, 17, 10, 10, 4>>>>,
      <<"W", <<17, 17, 17, 17, 17, 21, 27, 17>>>>,
      <<"X", <<17, 17, 10, 4, 10, 17, 17, 17>>>>,
      <<"Y", <<17, 17, 10, 4, 4, 4, 4, 4>>>>,
      <<"Z", <<31, 1, 2, 4, 8, 16, 16, 31>>>>,
      <<" ", <<0, 0, 0, 0, 0, 0, 0, 0>>>>,
      <<":", <<0, 4, 4, 0, 0, 4, 4, 0>>>>,
      <<"-", <<0, 0, 0, 31, 0, 0, 0, 0>>>>,
      <<"ARROW", <<0, 4, 2, 31, 2, 4, 0, 0>>>>,
      <<".", <<0, 0, 0, 0, 0, 0, 4, 4>>>>,
      <<"@", <<31, 17, 21, 23, 22, 16, 16, 31>>>>,
      <<"/", <<1, 1, 2, 4, 8, 16, 16, 16>>>>,
      <<"DEG", <<14, 17, 17, 14, 0, 0, 0, 0>>>>>>

\* plane_pattern: the 10x10 sprite of _animate_plane_crossing
PlanePattern ==
    <<
      <<" "," "," "," "," "," "," "," "," "," ">>,
      <<" "," "," "," "," "," ","P","P"," "," ">>,
      <<" "," "," "," ","P","P","P"," "," "," ">>,
      <<" "," ","P","P","P"," "," "," ","P","P">>,
      <<"P","P","P","P","P","P","P","P","P","P">>,
      <<"P","P","P","P","P","P","P","P","P","P">>,
      <<" "," ","P","P","P"," "," "," ","P","P">>,
      <<" "," "," "," ","P","P","P"," "," "," ">>,
      <<" "," "," "," "," "," ","P","P"," "," ">>,
      <<" "," "," "," "," "," "," "," "," "," ">>
    >>

\* simple_icons["sunny"]: 18x18
IconSunny ==
    <<
      <<" "," "," "," "," "," "," "," "," "," "," "," "," "," "," "," "," "," ">>,
      <<" ","s"," "," "," "," "," "," ","s"," "," "," "," "," "," ","s"," "," ">>,
      <<" "," ","s"," "," "," "," "," ","s"," "," "," "," "," ","s"," "," "," ">>,
      <<" "," "," ","s"," "," "," "," ","s"," "," "," "," ","s"," "," "," "," ">>,
      <<" "," "," "," "," "," "," "," "," "," "," "," "," "," "," "," "," "," ">>,
      <<" "," "," "," "," ","s","s","s","s","s","s","s"," "," "," "," "," "," ">>,
      <<" "," "," "," ","s","s","s","s","s","s","s","s","s"," "," "," "," "," ">>,
      <<" "," "," "," ","s","s","s","s","s","s","s","s","s"," "," "," "," "," ">>,
      <<" "," "," "," ","s","s","s","s","s","s","s","s","s"," "," "," "," "," ">>,
      <<"s","s","s"," ","s","s","s","s","s","s","s","s","s"," "," ","s","s","s">>,
      <<" "," "," "," ","s","s","s","s","s","s","s","s","s"," "," "," "," "," ">>,
      <<" "," "," "," ","s","s","s","s","s","s","s","s","s"," "," "," "," "," ">>,
      <<" "," "," "," ","s","s","s","s","s","s","s","s","s"," "," "," "," "," ">>,
      <<" "," "," "," "," ","s","s","s","s","s","s","s"," "," "," "," "," "," ">>,
      <<" "," "," "," ","s"," "," "," ","s"," "," "," ","s"," "," "," "," "," ">>,
      <<" "," "," ","s"," "," "," "," ","s"," "," "," "," ","s"," "," "," "," ">>,
      <<" "," ","s"," "," "," "," "," ","s"," "," "," "," "," ","s"," "," "," ">>,
      <<" "," "," "," "," "," "," "," "," "," "," "," "," "," "," "," "," "," ">>
    >>

\* simple_icons["cloudy"]: 18x18
IconCloudy ==
    <<
      <<" "," "," "," "," "," "," "," "," "," "," "," "," "," "," "," "," "," ">>,
      <<" "," "," "," "," "," "," "," "," "," "," "," "," "," "," "," "," "," ">>,
      <<" "," ","~","~","~","~","~","~","~","~","~","~","~","~","~","~"," "," ">>,
      <<" "," "," "," "," "," "," "," "," "," "," "," "," "," "," "," "," "," ">>,
      <<" "," "," "," "," "," "," "," "," "," "," "," "," "," "," "," "," "," ">>,
      <<"~","~","~","~","~","~","~","~","~","~","~","~"," "," "," "," "," "," ">>,
      <<" "," "," "," "," "," "," "," "," "," "," "," "," "," "," "," "," "," ">>,
      <<" "," "," "," "," "," "," "," "," "," "," "," "," "," "," "," "," "," ">>,
      <<" "," "," "," "," "," ","~","~","~","~","~","~","~","~","~","~"," "," ">>,
      <<" "," "," "," "," "," "," "," "," "," "," "," "," "," "," "," "," "," ">>,
      <<" "," "," "," "," "," "," "," "," "," "," "," "," "," "," "," "," "," ">>,
      <<" "," ","~","~","~","~","~","~","~","~","~","~","~","~","~","~"," "," ">>,
      <<" "," "," "," "," "," "," "," "," "," "," "," "," "," "," "," "," "," ">>,
      <<" "," "," "," "," "," "," "," "," "," "," "," "," "," "," "," "," "," ">>,
      <<"~","~","~","~","~","~","~","~","~","~"," "," "," "," "," "," "," "," ">>,
      <<" "," "," "," "," "," "," "," "," "," "," "," "," "," "," "," "," "," ">>,
      <<" "," "," "," "," "," "," "," "," "," "," "," "," "," "," "," "," "," ">>,
      <<" "," "," "," "," "," "," "," "," "," "," "," "," "," "," "," "," "," ">>
    >>

\* simple_icons["rainy"]: 18x18
IconRainy ==
    <<
      <<" "," "," "," "," "," "," "," "," "," "," "," "," "," "," "," "," "," ">>,
      <<" "," "," "," "," "," "," "," "," "," "," "," "," "," "," "," "," "," ">>,
      <<" "," "," "," "," "," "," "," "," "," "," "," "," "," "," "," "," "," ">>,
      <<" "," "," "," "," "," "," "," ","o"," "," "," "," "," "," "," "," "," ">>,
      <<" "," "," "," "," "," "," ","o","o","o"," "," "," "," "," "," "," "," ">>,
      <<" "," "," "," "," "," ","o","o","o","o","o"," "," "," "," "," "," "," ">>,
      <<" "," "," "," "," ","o","o","o","o","o","o","o"," "," "," "," "," "," ">>,
      <<" "," "," "," ","o","o","o","o","o","o","o","o","o"," "," "," "," "," ">>,
      <<" "," "," ","o","o","o","o","o","o","o","o","o","o","o"," "," "," "," ">>,
      <<" "," ","o","o","o","o","o","o","o","o","o","o","o","o","o"," "," "," ">>,
      <<" "," ","o","o","o","o","o","o","o","o","o","o","o","o","o"," "," "," ">>,
      <<" "," ","o","o","o","o","o","o","o","o","o","o","o","o","o"," "," "," ">>,
      <<" "," "," ","o","o","o","o","o","o","o","o","o","o","o"," "," "," "," ">>,
      <<" "," "," "," ","o","o","o","o","o","o","o","o","o"," "," "," "," "," ">>,
      <<" "," "," "," "," ","o","o","o","o","o","o","o"," "," "," "," "," "," ">>,
      <<" "," "," "," "," "," "," "," "," "," "," "," "," "," "," "," "," "," ">>,
      <<" "," "," "," "," "," "," "," "," "," "," "," "," "," "," "," "," "," ">>,
      <<" "," "," "," "," "," "," "," "," "," "," "," "," "," "," "," "," "," ">>
    >>

\* flag_pattern: the 13x8 Canada flag
FlagPattern ==
    <<
      <<"R","R","R",".",".",".",".",".",".",".","R","R","R">>,
      <<"R","R","R",".",".",".","R",".",".",".","R","R","R">>,
      <<"R","R","R",".","R",".","R",".","R",".","R","R","R">>,
      <<"R","R","R",".","R","R","R","R","R",".","R","R","R">>,
      <<"R","R","R",".",".","R","R","R",".",".","R","R","R">>,
      <<"R","R","R",".","R",".","R",".","R",".","R","R","R">>,
      <<"R","R","R",".",".",".","R",".",".",".","R","R","R">>,
      <<"R","R","R",".",".",".",".",".",".",".","R","R","R">>
    >>

GlyphChars == {GlyphTable[i][1] : i \in DOMAIN GlyphTable}

\* patterns[char]
Patterns == [c \in GlyphChars |->
               GlyphTable[CHOOSE i \in DOMAIN GlyphTable : GlyphTable[i][1] = c][2]]

\* The pixels of one pattern (a list of rows of characters) placed at (x, y) that
\* fall inside the display: <<x + col, y + row, colorOf(char)>> for every cell
\* whose character has a colour.
PatternPixels(pattern, x, y, chars, colorOf(_)) ==
    {<<x + (rc[2] - 1), y + (rc[1] - 1), colorOf(pattern[rc[1]][rc[2]])>> :
        rc \in {rc \in (DOMAIN pattern) \X (1 .. Len(pattern[1])) :
                   /\ InBounds(x + (rc[2] - 1), y + (rc[1] - 1))
                   /\ pattern[rc[1]][rc[2]] \in chars}}

\* Mutant of DrawTextToBuffer: a character without a glyph does not advance the cursor
DrawTextToBufferSkipAdvance(S, text, x, y, color) ==
    LET up == Upper(text)
        before(k) == Cardinality({j \in 1 .. (k - 1) : up[j] \in GlyphChars})
        glyph == {<<x + 6 * before(t[1]) + t[3], y + t[2], color>> :
                     t \in {t \in (DOMAIN up) \X Range(8) \X Range(5) :
                              /\ InBounds(x + 6 * before(t[1]) + t[3], y + t[2])
                              /\ up[t[1]] \in GlyphChars
                              /\ BitSet(Patterns[up[t[1]]][t[2] + 1], 4 - t[3])}}
    IN [SetPixels(AddDirtyRegion(S, x, y, Len(text) * 6, 8), glyph)
          EXCEPT !.calls = Append(@, <<"text", text, x, y, color>>)]

\* _draw_text_to_buffer(text, x, y, color)
DrawTextToBuffer(S, text, x, y, color) ==
    LET up == Upper(text)
        \* char_x of character k (from 1) is x + 6 * (k - 1), with or without a glyph
        glyph == {<<x + 6 * (t[1] - 1) + t[3], y + t[2], color>> :
                     t \in {t \in (DOMAIN up) \X Range(8) \X Range(5) :
                              /\ InBounds(x + 6 * (t[1] - 1) + t[3], y + t[2])
                              /\ up[t[1]] \in GlyphChars
                              /\ BitSet(Patterns[up[t[1]]][t[2] + 1], 4 - t[3])}}
    IN [SetPixels(AddDirtyRegion(S, x, y, Len(text) * 6, 8), glyph)
          EXCEPT !.calls = Append(@, <<"text", text, x, y, color>>)]

\* _draw_plane_to_buffer(pattern, x, y, color)
DrawPlaneToBuffer(S, pattern, x, y, color) ==
    [SetPixels(S, PatternPixels(pattern, x, y, {"P"}, LAMBDA c : color))
       EXCEPT !.calls = Append(@, <<"plane", x, y, color>>)]

\* colors of _draw_weather_icon_to_buffer
IconColor(c) ==
    CASE c = "s" -> <<255, 200, 0>>
      [] c = "o" -> <<0, 100, 255>>
      [] c = "~" -> <<255, 255, 255>>

\* simple_icons[condition], "cloudy" for an unknown condition
SimpleIcon(condition) ==
    CASE condition = "sunny" -> IconSunny
      [] condition = "rainy" -> IconRainy
      [] OTHER -> IconCloudy

\* _draw_weather_icon_to_buffer(condition, x, y)
DrawWeatherIconToBuffer(S, condition, x, y) ==
    [SetPixels(AddDirtyRegion(S, x, y, 18, 18),
               PatternPixels(SimpleIcon(condition), x, y, {"s", "o", "~"}, IconColor))
       EXCEPT !.calls = Append(@, <<"icon", condition, x, y>>)]

\* colors of _draw_canada_flag
FlagColor(c) == IF c = "R" THEN <<255, 0, 0>> ELSE <<255, 255, 255>>

\* _draw_canada_flag(x, y)
DrawCanadaFlag(S, x, y) ==
    [SetPixels(AddDirtyRegion(S, x, y, 13, 8),
               PatternPixels(FlagPattern, x, y, {"R", "W"}, FlagColor))
       EXCEPT !.calls = Append(@, <<"flag", x, y>>)]

\* The pixels draw_line visits from (x, y) on: the loop of Bresenham's algorithm.
RECURSIVE LinePoints(_, _, _, _, _, _, _, _, _)
LinePoints(x, y, x2, y2, dx, dy, sx, sy, err) ==
    IF x = x2 /\ y = y2
    THEN {<<x, y>>}
    ELSE LET e2 == 2 * err
             errx == IF e2 > -dy THEN err - dy ELSE err
             nx == IF e2 > -dy THEN x + sx ELSE x
             erry == IF e2 < dx THEN errx + dx ELSE errx
             ny == IF e2 < dx THEN y + sy ELSE y
         IN {<<x, y>>} \cup LinePoints(nx, ny, x2, y2, dx, dy, sx, sy, erry)

\* draw_line(x1, y1, x2, y2, color)
DrawLine(S, x1, y1, x2, y2, color) ==
    LET dx == Abs(x2 - x1)
        dy == Abs(y2 - y1)
        sx == IF x1 < x2 THEN 1 ELSE -1
        sy == IF y1 < y2 THEN 1 ELSE -1
    IN SetPixels(S, {<<p[1], p[2], color>> :
                        p \in LinePoints(x1, y1, x2, y2, dx, dy, sx, sy, dx - dy)})

\* draw_rectangle(x, y, width, height, color, filled)
DrawRectangle(S, x, y, width, height, color, filled) ==
    LET pts == IF filled
               THEN {<<x + dx, y + dy>> : dx \in Range(width), dy \in Range(height)}
               ELSE {<<x + dx, y>> : dx \in Range(width)}
                    \cup {<<x + dx, y + height - 1>> : dx \in Range(width)}
                    \cup {<<x, y + dy>> : dy \in Range(height)}
                    \cup {<<x + width - 1, y + dy>> : dy \in Range(height)}
    IN AddDirtyRegion(SetPixels(S, {<<p[1], p[2], color>> : p \in pts}),
                      x, y, width, height)

\* _force_full_update(): every back-buffer pixel is sent to the panel
ForceFullUpdate(S) ==
    IF ~S.ready THEN S ELSE [S EXCEPT !.hw = S.back]

(***************************************************************************)
(* Strings.                                                                *)
(***************************************************************************)
\* sub in text
Contains(text, sub) ==
    \E i \in 0 .. (Len(text) - Len(sub)) :
        \A j \in 1 .. Len(sub) : text[i + j] = sub[j]

\* dict.get(key, default)
Get(d, key, default) == IF key \in DOMAIN d THEN d[key] ELSE default

Digits == {"0", "1", "2", "3", "4", "5", "6", "7", "8", "9"}

\* text[i] is a digit (False past the end of the text)
IsDigitAt(text, i) == i >= 1 /\ i <= Len(text) /\ text[i] \in Digits

\* text[i] is the character ch
IsCharAt(text, i, ch) == i >= 1 /\ i <= Len(text) /\ text[i] = ch

\* All of text[i .. i+n-1] are digits
DigitsAt(text, i, n) == \A k \in 0 .. (n - 1) : IsDigitAt(text, i + k)

\* The end of the longest run of digits that starts at i (i - 1 when there is none)
RECURSIVE DigitRunEnd(_, _)
DigitRunEnd(text, i) ==
    IF IsDigitAt(text, i) THEN DigitRunEnd(text, i + 1) ELSE i - 1

\* str.lstrip('0') or '0'
RECURSIVE LStripZero(_)
LStripZero(text) ==
    IF text = <<>> THEN <<"0">>
    ELSE IF Head(text) = "0" THEN LStripZero(Tail(text)) ELSE text

\* The "unavailable" value of the METAR extraction functions (Python's None)
None == <<"None">>

\* None where a dict is expected (a flight or weather record)
NoneData == [type |-> "None"]

\* Mutant of ExtractTemperatureFromMetar: the pattern is (\d+)/ without the dew point
ExtractTemperatureNoDewPoint(metar) ==
    IF metar = None \/ metar = <<>> THEN None
    ELSE LET starts == {i \in 1 .. Len(metar) :
                          /\ IsDigitAt(metar, i)
                          /\ IsCharAt(metar, DigitRunEnd(metar, i) + 1, "/")}
         IN IF starts = {} THEN None
            ELSE LET i == CHOOSE s \in starts : \A t \in starts : s <= t
                 IN SubSeq(metar, i, DigitRunEnd(metar, i)) \o <<"DEG", "C">>

\* _extract_temperature_from_metar(metar): re.search(r'(\d+)/(\d+)', metar),
\* group(1) followed by the degree sign and "C"
ExtractTemperatureFromMetar(metar) ==
    IF metar = None \/ metar = <<>> THEN None
    ELSE LET starts == {i \in 1 .. Len(metar) :
                          /\ IsDigitAt(metar, i)
                          /\ IsCharAt(metar, DigitRunEnd(metar, i) + 1, "/")
                          /\ IsDigitAt(metar, DigitRunEnd(metar, i) + 2)}
         IN IF starts = {} THEN None
            ELSE LET i == CHOOSE s \in starts : \A t \in starts : s <= t
                 IN SubSeq(metar, i, DigitRunEnd(metar, i)) \o <<"DEG", "C">>

\* The match of (\d{3})(\d{2,3})(?:G(\d{2,3}))?KT at position i, as
\* <<matched, speed length, gust length>> (gust length 0: no gust group)
WindMatchAt(metar, i) ==
    LET kt(j) == IsCharAt(metar, j, "K") /\ IsCharAt(metar, j + 1, "T")
        \* the tail (?:G(\d{2,3}))?KT from position j: the gust length, -1 for no match
        tail(j) == IF IsCharAt(metar, j, "G") /\ DigitsAt(metar, j + 1, 3) /\ kt(j + 4) THEN 3
                   ELSE IF IsCharAt(metar, j, "G") /\ DigitsAt(metar, j + 1, 2) /\ kt(j + 3) THEN 2
                   ELSE IF kt(j) THEN 0
                   ELSE -1
    IN IF ~DigitsAt(metar, i, 3) THEN <<FALSE, 0, 0>>
       ELSE IF DigitsAt(metar, i + 3, 3) /\ tail(i + 6) >= 0 THEN <<TRUE, 3, tail(i + 6)>>
       ELSE IF DigitsAt(metar, i + 3, 2) /\ tail(i + 5) >= 0 THEN <<TRUE, 2, tail(i + 5)>>
       ELSE <<FALSE, 0, 0>>

\* _extract_wind_from_metar(metar)
ExtractWindFromMetar(metar) ==
    IF metar = None \/ metar = <<>> THEN None
    ELSE LET starts == {i \in 1 .. Len(metar) : WindMatchAt(metar, i)[1]}
         IN IF starts = {} THEN None
            ELSE LET i == CHOOSE s \in starts : \A t \in starts : s <= t
                     m == WindMatchAt(metar, i)
                     direction == SubSeq(metar, i, i + 2)
                     speed == LStripZero(SubSeq(metar, i + 3, i + 2 + m[2]))
                     gust == LStripZero(SubSeq(metar, i + 4 + m[2], i + 3 + m[2] + m[3]))
                 IN IF m[3] > 0
                    THEN direction \o <<"@">> \o speed \o <<"G">> \o gust \o <<"k", "t">>
                    ELSE direction \o <<"@">> \o speed \o <<"k", "t">>

\* The precipitation codes of _parse_weather_condition
PrecipCodes == {<<"R","A">>, <<"S","H","R","A">>, <<"T","S","R","A">>, <<"D","Z">>,
                <<"S","N">>, <<"S","H","S","N">>, <<"B","L","S","N">>, <<"T","S">>,
                <<"V","C","T","S">>}

\* _parse_weather_condition(metar)
ParseWeatherCondition(metar) ==
    IF metar = None \/ metar = <<>> THEN "cloudy"
    ELSE IF \E p \in PrecipCodes : Contains(Upper(metar), p) THEN "rainy"
    ELSE IF Contains(Upper(metar), <<"C","L","R">>) \/ Contains(Upper(metar), <<"S","K","C">>)
         THEN "sunny"
    ELSE "cloudy"

(***************************************************************************)
(* The screens of the display controller.                                  *)
(***************************************************************************)
\* CANADIAN_AIRPORTS (flight_logic.py)
CANADIAN_AIRPORTS == {"YYZ", "YUL", "YVR"}

\* config.ROW_ONE_COLOR, ROW_TWO_COLOR, ROW_THREE_COLOR
ROW_ONE_COLOR == <<100, 150, 255>>
ROW_TWO_COLOR == <<100, 150, 255>>
ROW_THREE_COLOR == <<100, 150, 255>>

OrangeColor == <<255, 165, 0>>
LightBlueColor == <<173, 216, 230>>
PurpleColor == <<128, 0, 128>>
AmberColor == <<255, 191, 0>>

\* Mutant of DrawCentred: the text is centred alone, the flag is never drawn
DrawCentredNoFlag(S, text, y, color, withFlag) ==
    DrawTextToBuffer(S, text, (DISPLAY_WIDTH - Len(text) * 6) \div 2, y, color)

\* A text, optionally behind the Canada flag, centred on the line at height y:
\* lines 1 and 3 of show_flight_info.
DrawCentred(S, text, y, color, withFlag) ==
    IF withFlag
    THEN LET start_x == (DISPLAY_WIDTH - (13 + 2 + Len(text) * 6)) \div 2
         IN DrawTextToBuffer(DrawCanadaFlag(S, start_x, y), text, start_x + 13 + 2, y, color)
    ELSE DrawTextToBuffer(S, text, (DISPLAY_WIDTH - Len(text) * 6) \div 2, y, color)

\* show_flight_info(flight_data)
ShowFlightInfo(S, flight_data) ==
    LET callsign == Get(flight_data, "callsign", <<"U","n","k","n","o","w","n">>)
        route == Get(flight_data, "route", <<>>)
        aircraft_type == Get(flight_data, "aircraft_type", <<>>)
        origin_code == Get(flight_data, "origin", "")
        is_canadian_aircraft ==
            aircraft_type # <<>> /\ Contains(aircraft_type, <<"C","a","n","a","d","a","i","r">>)
        cleared == ClearBuffer(S)
        line1 == IF aircraft_type # <<>>
                 THEN DrawCentred(cleared, aircraft_type, 2, PurpleColor, is_canadian_aircraft)
                 ELSE cleared
        line2 == DrawTextToBuffer(line1, callsign,
                                  (DISPLAY_WIDTH - Len(callsign) * 6) \div 2, 12, OrangeColor)
        line3 == DrawCentred(line2, route, 22, LightBlueColor,
                             origin_code \in CANADIAN_AIRPORTS)
    IN SwapBuffers(line3)

\* Mutant of ShowWeatherInfo: temperature and wind are shown only if both are
\* available, the placeholder stands for the whole line otherwise
ShowWeatherInfoAllOrNothing(S, weather) ==
    LET metar == Get(weather, "metar",
                     <<"W","e","a","t","h","e","r"," ","u","n","a","v","a","i","l","a","b","l","e">>)
        line1 == DrawTextToBuffer(ClearBuffer(S),
                     <<"W","e","a","t","h","e","r"," ","a","t"," ","L","G","A",":">>,
                     1, 2, ROW_ONE_COLOR)
        icon == DrawWeatherIconToBuffer(line1, ParseWeatherCondition(metar), 1, 12)
        temperature == ExtractTemperatureFromMetar(metar)
        wind_info == ExtractWindFromMetar(metar)
        combined_text == IF temperature # None /\ wind_info # None
                         THEN temperature \o <<" ">> \o wind_info
                         ELSE <<"T","e","m","p",":"," ","N","/","A">>
    IN SwapBuffers(DrawTextToBuffer(icon, combined_text, 24, 16, ROW_THREE_COLOR))

\* show_weather_info(weather_data)
ShowWeatherInfo(S, weather) ==
    LET metar == Get(weather, "metar",
                     <<"W","e","a","t","h","e","r"," ","u","n","a","v","a","i","l","a","b","l","e">>)
        line1 == DrawTextToBuffer(ClearBuffer(S),
                     <<"W","e","a","t","h","e","r"," ","a","t"," ","L","G","A",":">>,
                     1, 2, ROW_ONE_COLOR)
        icon == DrawWeatherIconToBuffer(line1, ParseWeatherCondition(metar), 1, 12)
        temperature == ExtractTemperatureFromMetar(metar)
        wind_info == ExtractWindFromMetar(metar)
        temp_text == IF temperature # None THEN temperature
                     ELSE <<"T","e","m","p",":"," ","N","/","A">>
        combined_text == IF wind_info # None THEN temp_text \o <<" ">> \o wind_info
                         ELSE temp_text
    IN SwapBuffers(DrawTextToBuffer(icon, combined_text, 24, 16, ROW_THREE_COLOR))

\* show_no_flights_message(message_data)
ShowNoFlightsMessage(S) ==
    LET line1 == DrawTextToBuffer(ClearBuffer(S),
                     <<"N","o"," ","A","p","p","r","o","a","c","h">>, 1, 2, ROW_ONE_COLOR)
        line2 == DrawTextToBuffer(line1, <<"T","r","a","f","f","i","c">>, 1, 12, ROW_TWO_COLOR)
        line3 == DrawTextToBuffer(line2, <<"D","e","t","e","c","t","e","d">>, 1, 22,
                                  ROW_THREE_COLOR)
    IN SwapBuffers(line3)

IncomingPlaneText == <<"I","n","c","o","m","i","n","g"," ","P","l","a","n","e">>

\* One flash of _flash_incoming_plane_text: the banner is presented, then a blank frame
FlashOnce(S) ==
    LET center_x == (DISPLAY_WIDTH - Len(IncomingPlaneText) * 6) \div 2
        center_y == (DISPLAY_HEIGHT - 8) \div 2
        banner == SwapBuffers(DrawTextToBuffer(ClearBuffer(S), IncomingPlaneText,
                                               center_x, center_y, AmberColor))
    IN SwapBuffers(ClearBuffer(banner))

\* _flash_incoming_plane_text(): for flash_count in range(2)
FlashIncomingPlaneText(S) == FlashOnce(FlashOnce(S))

\* The loop of _animate_plane_crossing from position x down to end_x = -10 (exclusive);
\* each frame is presented (and its swap has emptied the dirty set) before the next
\* position is drawn
RECURSIVE AnimateFrom(_, _)
AnimateFrom(S, x) ==
    IF x <= -10 THEN S
    ELSE LET frame == SwapBuffers(DrawPlaneToBuffer(ClearBuffer(S), PlanePattern, x,
                                                    (DISPLAY_HEIGHT \div 2) - 5,
                                                    PurpleColor))
         IN IF frame.dirty = {} THEN AnimateFrom(frame, x - 1) ELSE frame

\* _animate_plane_crossing(): for x in range(DISPLAY_WIDTH, -10, -1)
AnimatePlaneCrossing(S) == AnimateFrom(S, DISPLAY_WIDTH)

\* Mutant of ShowPlaneCelebration: the sweep runs before the banner flashes
ShowPlaneCelebrationSweepFirst(S, flight_data) ==
    ShowFlightInfo(FlashIncomingPlaneText(AnimatePlaneCrossing(S)), flight_data)

\* show_plane_celebration(flight_data)
ShowPlaneCelebration(S, flight_data) ==
    ShowFlightInfo(AnimatePlaneCrossing(FlashIncomingPlaneText(S)), flight_data)

(***************************************************************************)
(* Inputs of the display operations.                                       *)
(***************************************************************************)
\* Colours given to set_pixel, draw_line and draw_rectangle
\* (test_display_performance.py:64-65)
PixelColors == {<<255, 0, 0>>, <<0, 255, 0>>}

\* Coordinates given to set_pixel: two inside the display and one outside
PixelInputs == {<<1, 0>>, <<DISPLAY_WIDTH - 1, DISPLAY_HEIGHT - 1>>, <<DISPLAY_WIDTH, 0>>}

\* End points <<x1, y1, x2, y2>> given to draw_line: the diagonal of the display
\* (test_display_performance.py:131) and a line leaving the display
LineInputs == {<<0, 0, DISPLAY_WIDTH - 1, DISPLAY_HEIGHT - 1>>,
               <<DISPLAY_WIDTH - 2, 1, DISPLAY_WIDTH + 1, 0>>}

\* Rectangles <<x, y, width, height>> given to draw_rectangle and update_region
RectInputs == {<<DISPLAY_WIDTH - 2, DISPLAY_HEIGHT - 2, 3, 3>>}

\* Texts <<text, x, y>> given to _draw_text
TextInputs == {<< <<"a", "?", "T">>, -5, -2 >>}

\* Flight records (test_display_performance.py:27-32, test_states.py:114-124, 133-144)
FlightUAL == [flight_id |-> "ual123",
              callsign |-> <<"U","A","L","1","2","3">>,
              aircraft_type |-> <<"B","7","3","8">>,
              route |-> <<"O","R","D","-","L","G","A">>]
FlightYYZ == [flight_id |-> "edv5",
              callsign |-> <<"E","D","V","5">>,
              aircraft_type |-> <<"A","2","2","0">>,
              origin |-> "YYZ",
              route |-> <<"Y","Y","Z"," ","ARROW"," ","L","G","A">>]
FlightCRJ == [flight_id |-> "aal1",
              callsign |-> <<"A","A","L","1">>,
              aircraft_type |-> <<"C","a","n","a","d","a","i","r">>,
              origin |-> "BOS",
              route |-> <<"B","O","S"," ","ARROW"," ","L","G","A">>]
FlightRecords == {FlightUAL, FlightYYZ, FlightCRJ}

\* Private-jet records (test_states.py:153-164, 173-184, the aircraft types shortened
\* to the manufacturer)
FlightPrivate == [flight_id |-> "rich123",
                  callsign |-> <<"N","1","2","3","A","B">>,
                  aircraft_type |-> <<"C","e","s","s","n","a">>,
                  origin |-> "TEB",
                  route |-> <<"?","?","?"," ","ARROW"," ","?","?","?">>,
                  is_private_jet |-> TRUE]
FlightBombardier == [flight_id |-> "bombardier123",
                     callsign |-> <<"C","-","G","X","Y","Z">>,
                     aircraft_type |-> <<"B","o","m","b","a","r","d","i","e","r">>,
                     origin |-> "YYZ",
                     route |-> <<"?","?","?"," ","ARROW"," ","?","?","?">>,
                     is_private_jet |-> TRUE]

\* A record of a flight whose aircraft type is not known
FlightNoType == [flight_id |-> "dal9",
                 callsign |-> <<"D","A","L","9">>,
                 aircraft_type |-> <<>>,
                 origin |-> "YUL",
                 route |-> <<"Y","U","L"," ","ARROW"," ","L","G","A">>,
                 is_private_jet |-> FALSE]


\* Weather records (test_display_performance.py:109-110, shortened METARs), one
\* without a METAR
WeatherClear == [metar |-> <<"1","8","0","0","6","K","T"," ","C","L","R"," ","2","9","/","2","2">>,
                 arrivals_runway |-> "04", departures_runway |-> "04"]
WeatherRain == [metar |-> <<"2","5","0","0","9","G","1","9","K","T"," ","R","A"," ","2","2","/","1","8">>,
                arrivals_runway |-> "04", departures_runway |-> "04"]
WeatherNone == [arrivals_runway |-> "Unknown", departures_runway |-> "Unknown"]
WeatherRecords == {WeatherClear, WeatherRain, WeatherNone}

\* Weather records with a field missing: an empty METAR, no METAR (None), a METAR
\* without a temperature group, one without a wind group, and the fallback record of
\* get_weather_display (flight_logic.py:397-403) with neither
WeatherEmpty == [metar |-> <<>>, arrivals_runway |-> "04", departures_runway |-> "04"]
WeatherNullMetar == [metar |-> None, arrivals_runway |-> "04", departures_runway |-> "04"]
WeatherWindOnly == [metar |-> <<"1","8","0","0","6","K","T"," ","C","L","R">>,
                    arrivals_runway |-> "04", departures_runway |-> "04"]
WeatherTempOnly == [metar |-> <<"C","L","R"," ","2","9","/","2","2">>,
                    arrivals_runway |-> "04", departures_runway |-> "04"]
WeatherFallback ==
    [type |-> "weather",
     metar |-> <<"W","e","a","t","h","e","r"," ","u","n","a","v","a","i","l","a","b","l","e">>,
     arrivals_runway |-> "Unknown", departures_runway |-> "Unknown"]

\* The records given to show_weather_info in SpecScreens
ScreenWeatherInputs ==
    {WeatherClear, WeatherRain, WeatherNone, WeatherEmpty, WeatherNullMetar,
     WeatherWindOnly, WeatherTempOnly, WeatherFallback}

\* The records given to show_flight_info / show_weather_info in SpecDisplay
DisplayFlightInputs == {FlightUAL, FlightCRJ}
DisplayWeatherInputs == {WeatherRain, WeatherNone}

\* The records given to show_flight_info in SpecScreens (test_states.py:55-187)
ScreenFlightInputs ==
    {FlightUAL, FlightYYZ, FlightCRJ, FlightPrivate, FlightBombardier, FlightNoType}

\* The record given to show_plane_celebration in SpecDisplay (test_states.py:114-124)
CelebrationInputs == {FlightYYZ}

(***************************************************************************)
(* SpecDisplay: any sequence of at most MaxOps operations on one display   *)
(* controller, with or without the panel.                                  *)
(***************************************************************************)
\* The controller S becomes the state, after the operation named name
CommitController(S, name, record) ==
    /\ front_buffer' = S.front
    /\ back_buffer' = S.back
    /\ dirty_pixels' = S.dirty
    /\ dirty_regions' = S.regions
    /\ matrix' = S.hw
    /\ hardware_ready' = S.ready
    /\ written' = S.written
    /\ hw_writes' = S.hw_writes
    /\ hw_before' = S.hw_before
    /\ presented' = S.presented
    /\ calls' = S.calls
    /\ op' = name
    /\ arg' = record
    /\ UNCHANGED engvars
    /\ UNCHANGED scrollvars
    /\ UNCHANGED metarvars

\* The same, where there is one display controller
Commit(S, name, record) ==
    /\ CommitController(S, name, record)
    /\ UNCHANGED <<twin, layout, feed, tracker, line>>

\* The display engine when it is not queried
EngineIdle ==
    /\ alt_candidates = <<>>
    /\ alt_dwell = 0
    /\ line1_scroll = <<>>
    /\ line2_scroll = <<>>
    /\ line3_scroll = <<>>
    /\ last = <<>>
    /\ reference = <<>>
    /\ repeated = FALSE
    /\ stable = TRUE
    /\ ncalls = 0

\* The scroll animator when no row is rendered
ScrollIdle ==
    /\ scroll_state = <<>>
    /\ scroll_text = <<>>
    /\ scroll_width = 0
    /\ scroll_loop = FALSE
    /\ scroll_now = 0
    /\ scroll_first = 0
    /\ scroll_slice = <<>>
    /\ scroll_calls = 0
    /\ scroll_interrupted = "None"

\* The METAR parsers when they are not called
MetarIdle ==
    /\ metar_text = <<>>
    /\ metar_ntokens = 0
    /\ metar_parsed = NoneData

\* No second display controller
TwinIdle == twin = <<>>

\* Nothing has been truncated
LayoutIdle == layout = <<>>

\* No response of the flight feed has been received
FeedIdle == feed = <<>>

\* No statistics tracker has been constructed
TrackerIdle == tracker = <<>>

\* draw_line is not being stepped through
LineIdle == line = <<>>

\* The display controller when no display operation is performed
DisplayIdle ==
    /\ hardware_ready = FALSE
    /\ front_buffer = <<>>
    /\ back_buffer = <<>>
    /\ dirty_pixels = {}
    /\ dirty_regions = <<>>
    /\ matrix = <<>>
    /\ op = "init"
    /\ written = {}
    /\ hw_writes = {}
    /\ hw_before = <<>>
    /\ presented = <<>>
    /\ calls = <<>>
    /\ arg = NoneData
    /\ nops = 0

\* The main loop before FlightAnnouncer() is constructed and run
MainIdle ==
    /\ running = FALSE
    /\ plane_detected = FALSE
    /\ current_plane_data = NoneData
    /\ weather_data = NoneData
    /\ last_plane_check = 0
    /\ last_weather_update = 0
    /\ current_time = 0
    /\ now = 0
    /\ pc = "idle"
    /\ poll_result = NoneData
    /\ last_reported = NoneData
    /\ celebrations = <<>>
    /\ stats = <<>>
    /\ npolls = 0
    /\ iterations = 0
    /\ celebrating = 0

\* One more operation of the sequence
Step == nops < MaxOps /\ nops' = nops + 1 /\ UNCHANGED mainvars

InitDisplay ==
    /\ \E ready \in BOOLEAN :
          LET S == InitDC(ready)
          IN /\ front_buffer = S.front
             /\ back_buffer = S.back
             /\ dirty_pixels = S.dirty
             /\ dirty_regions = S.regions
             /\ matrix = S.hw
             /\ hardware_ready = S.ready
             /\ written = S.written
             /\ hw_writes = S.hw_writes
             /\ hw_before = S.hw_before
             /\ presented = S.presented
             /\ calls = S.calls
    /\ op = "init"
    /\ arg = NoneData
    /\ nops = 0
    /\ MainIdle
    /\ EngineIdle
    /\ ScrollIdle
    /\ MetarIdle
    /\ TwinIdle
    /\ LayoutIdle
    /\ FeedIdle
    /\ TrackerIdle
    /\ LineIdle

\* set_pixel(x, y, color)
SetPixel ==
    /\ Step
    /\ \E c \in PixelInputs, color \in PixelColors :
          Commit(SetPixelBuffer(DC, c[1], c[2], color), "set_pixel", NoneData)

\* draw_line(x1, y1, x2, y2, color)
DrawLineOp ==
    /\ Step
    /\ \E l \in LineInputs :
          Commit(DrawLine(DC, l[1], l[2], l[3], l[4], <<255, 255, 255>>), "draw_line", NoneData)

\* draw_rectangle(x, y, width, height, color, filled)
DrawRectangleOp ==
    /\ Step
    /\ \E r \in RectInputs, filled \in BOOLEAN :
          Commit(DrawRectangle(DC, r[1], r[2], r[3], r[4], <<255, 0, 0>>, filled),
                 "draw_rectangle", NoneData)

\* _draw_text(text, x, y, color)
DrawText ==
    /\ Step
    /\ \E t \in TextInputs :
          Commit(DrawTextToBuffer(DC, t[1], t[2], t[3], ROW_ONE_COLOR), "draw_text", NoneData)

\* _draw_weather_icon(condition, x, y)
DrawWeatherIcon ==
    /\ Step
    /\ Commit(DrawWeatherIconToBuffer(DC, "sunny", -3, -1), "draw_icon", NoneData)

\* _draw_canada_flag(x, y)
DrawFlag ==
    /\ Step
    /\ Commit(DrawCanadaFlag(DC, -1, 1), "draw_flag", NoneData)

\* update_region(x, y, width, height)
UpdateRegion ==
    /\ Step
    /\ \E r \in RectInputs :
          Commit(AddDirtyRegion(DC, r[1], r[2], r[3], r[4]), "update_region", NoneData)

\* _clear_buffer()
Clear ==
    /\ Step
    /\ Commit(ClearBuffer(DC), "clear", NoneData)

\* _swap_buffers()
Swap ==
    /\ Step
    /\ Commit(SwapBuffers(DC), "swap", NoneData)

\* clear_display()
ClearDisplayOp ==
    /\ Step
    /\ Commit(ClearDisplay(DC), "clear_display", NoneData)

\* _force_full_update()
ForceFullUpdateOp ==
    /\ Step
    /\ Commit(ForceFullUpdate(DC), "force_full_update", NoneData)

\* show_flight_info(flight_data)
ShowFlightInfoOp ==
    /\ Step
    /\ \E f \in DisplayFlightInputs : Commit(ShowFlightInfo(DC, f), "show_flight_info", f)

\* show_weather_info(weather_data)
ShowWeatherInfoOp ==
    /\ Step
    /\ \E w \in DisplayWeatherInputs : Commit(ShowWeatherInfo(DC, w), "show_weather_info", w)

\* show_plane_celebration(flight_data)
ShowPlaneCelebrationOp ==
    /\ Step
    /\ \E f \in CelebrationInputs :
          Commit(ShowPlaneCelebration(DC, f), "show_plane_celebration", f)

\* show_no_flights_message(message_data)
ShowNoFlightsMessageOp ==
    /\ Step
    /\ Commit(ShowNoFlightsMessage(DC), "show_no_flights_message", NoneData)

NextDisplay ==
    \/ SetPixel
    \/ DrawLineOp
    \/ DrawRectangleOp
    \/ DrawText
    \/ DrawWeatherIcon
    \/ DrawFlag
    \/ UpdateRegion
    \/ Clear
    \/ Swap
    \/ ClearDisplayOp
    \/ ForceFullUpdateOp
    \/ ShowFlightInfoOp
    \/ ShowWeatherInfoOp
    \/ ShowPlaneCelebrationOp
    \/ ShowNoFlightsMessageOp

SpecDisplay == InitDisplay /\ [][NextDisplay]_vars

(***************************************************************************)
(* SpecDrawing: any sequence of at most MaxOps drawing operations, swaps   *)
(* and screens on one display controller, with or without the panel.       *)
(***************************************************************************)
NextDrawing ==
    \/ SetPixel
    \/ DrawLineOp
    \/ DrawRectangleOp
    \/ DrawText
    \/ DrawWeatherIcon
    \/ DrawFlag
    \/ UpdateRegion
    \/ Swap
    \/ ShowFlightInfoOp
    \/ ShowWeatherInfoOp
    \/ ShowNoFlightsMessageOp

SpecDrawing == InitDisplay /\ [][NextDrawing]_vars

(***************************************************************************)
(* SpecScreens: any sequence of at most MaxOps screens shown on one        *)
(* display controller (test_states.py), with or without the panel.         *)
(***************************************************************************)
\* show_flight_info(flight_data) with the records of test_states.py
ShowFlightRecord ==
    /\ Step
    /\ \E f \in ScreenFlightInputs : Commit(ShowFlightInfo(DC, f), "show_flight_info", f)

\* show_weather_info(weather_data) with complete and incomplete weather records
ShowWeatherRecord ==
    /\ Step
    /\ \E w \in ScreenWeatherInputs : Commit(ShowWeatherInfo(DC, w), "show_weather_info", w)

NextScreens ==
    \/ ShowFlightRecord
    \/ ShowWeatherRecord
    \/ ShowNoFlightsMessageOp
    \/ ClearDisplayOp

SpecScreens == InitDisplay /\ [][NextScreens]_vars

(***************************************************************************)
(* SpecText: texts of at most MaxTextLen characters drawn into the back    *)
(* buffer at several columns, on a blank frame or over rectangles; one     *)
(* text is drawn per frame.                                                *)
(***************************************************************************)
\* The characters of the texts: a letter and a character the font has no glyph for
LayoutChars == {"T", "?"}

\* Every text of 1 to MaxTextLen characters
LayoutTexts == UNION {[1 .. n -> LayoutChars] : n \in 1 .. MaxTextLen}

\* The columns the texts start at: the first, the second or the third character
\* cell is the one inside the display
LayoutColumns == {1, -5, -11}

\* _draw_text_to_buffer(text, x, 0, color), if no text was drawn since the last swap
\* (the region of a text is 8 rows high)
DrawTextLine ==
    /\ Step
    /\ \A i \in DOMAIN dirty_regions : dirty_regions[i][4] # 8
    /\ \E text \in LayoutTexts, x \in LayoutColumns :
          Commit(DrawTextToBuffer(DC, text, x, 0, ROW_ONE_COLOR), "draw_text", NoneData)

NextText ==
    \/ DrawTextLine
    \/ DrawRectangleOp
    \/ ClearDisplayOp

SpecText == InitDisplay /\ [][NextText]_vars

(***************************************************************************)
(* SpecHeadless: the same sequence of at most MaxOps operations performed  *)
(* on two display controllers, one with the panel and one without          *)
(* (HARDWARE_AVAILABLE false, or _init_hardware failed).                   *)
(***************************************************************************)
\* The operations and their arguments: <<name, arguments ...>>
HeadlessOps ==
    << <<"set_pixel", 1, 0, <<255, 0, 0>> >>,
       <<"set_pixel", DISPLAY_WIDTH, 0, <<0, 255, 0>> >>,
       <<"draw_line", 0, 0, DISPLAY_WIDTH - 1, DISPLAY_HEIGHT - 1>>,
       <<"draw_rectangle", DISPLAY_WIDTH - 2, DISPLAY_HEIGHT - 2, 3, 3>>,
       <<"draw_text", <<"a", "?", "T">>, -5, -2>>,
       <<"update_region", DISPLAY_WIDTH - 2, DISPLAY_HEIGHT - 2, 3, 3>>,
       <<"clear">>,
       <<"swap">>,
       <<"clear_display">>,
       <<"force_full_update">>,
       <<"show_flight_info", FlightCRJ>>,
       <<"show_weather_info", WeatherRain>>,
       <<"show_no_flights_message">>,
       <<"show_plane_celebration", FlightYYZ>> >>

\* The operation o performed on the controller S
Perform(S, o) ==
    CASE o[1] = "set_pixel" -> SetPixelBuffer(S, o[2], o[3], o[4])
      [] o[1] = "draw_line" -> DrawLine(S, o[2], o[3], o[4], o[5], <<255, 255, 255>>)
      [] o[1] = "draw_rectangle" ->
            DrawRectangle(S, o[2], o[3], o[4], o[5], <<255, 0, 0>>, TRUE)
      [] o[1] = "draw_text" -> DrawTextToBuffer(S, o[2], o[3], o[4], ROW_ONE_COLOR)
      [] o[1] = "update_region" -> AddDirtyRegion(S, o[2], o[3], o[4], o[5])
      [] o[1] = "clear" -> ClearBuffer(S)
      [] o[1] = "swap" -> SwapBuffers(S)
      [] o[1] = "clear_display" -> ClearDisplay(S)
      [] o[1] = "force_full_update" -> ForceFullUpdate(S)
      [] o[1] = "show_flight_info" -> ShowFlightInfo(S, o[2])
      [] o[1] = "show_weather_info" -> ShowWeatherInfo(S, o[2])
      [] o[1] = "show_no_flights_message" -> ShowNoFlightsMessage(S)
      [] o[1] = "show_plane_celebration" -> ShowPlaneCelebration(S, o[2])

\* The second controller as a value, at the start of an operation
TwinDC == [twin EXCEPT !.presented = <<>>, !.calls = <<>>]

\* DisplayController.__init__ twice: _init_hardware succeeds for the first
\* controller; the second has no panel
InitHeadless ==
    /\ LET S == InitDC(TRUE)
       IN /\ front_buffer = S.front
          /\ back_buffer = S.back
          /\ dirty_pixels = S.dirty
          /\ dirty_regions = S.regions
          /\ matrix = S.hw
          /\ hardware_ready = S.ready
          /\ written = S.written
          /\ hw_writes = S.hw_writes
          /\ hw_before = S.hw_before
          /\ presented = S.presented
          /\ calls = S.calls
    /\ twin = InitDC(FALSE)
    /\ LayoutIdle
    /\ FeedIdle
    /\ TrackerIdle
    /\ LineIdle
    /\ op = "init"
    /\ arg = NoneData
    /\ nops = 0
    /\ MainIdle
    /\ EngineIdle
    /\ ScrollIdle
    /\ MetarIdle

\* One operation, performed on both controllers
PerformOnBoth ==
    /\ Step
    /\ \E i \in DOMAIN HeadlessOps :
          /\ CommitController(Perform(DC, HeadlessOps[i]), HeadlessOps[i][1], NoneData)
          /\ twin' = Perform(TwinDC, HeadlessOps[i])
          /\ UNCHANGED <<layout, feed, tracker, line>>

SpecHeadless == InitHeadless /\ [][PerformOnBoth]_vars

(***************************************************************************)
(* SpecMetar: the three METAR parsers of the display controller applied to *)
(* an absent METAR, an empty one and every text of at most MaxGroups       *)
(* groups.                                                                 *)
(***************************************************************************)
\* The groups a METAR is put together from: direction and speed of the wind, two
\* more digits, the unit, the gust mark, the slash of temperature/dew point, a
\* blank, clear sky and rain (in lower case)
MetarGroups ==
    {<<"1","8","0","0","6">>, <<"0","6">>, <<"K","T">>, <<"G">>, <<"/">>, <<" ">>,
     <<"C","L","R">>, <<"r","a">>}

\* No METAR has been received
InitMetar ==
    /\ metar_text = None
    /\ metar_ntokens = 0
    /\ metar_parsed = NoneData
    /\ DisplayIdle
    /\ MainIdle
    /\ EngineIdle
    /\ ScrollIdle
    /\ TwinIdle
    /\ LayoutIdle
    /\ FeedIdle
    /\ TrackerIdle
    /\ LineIdle

\* The METAR is the empty string
ReceiveEmptyMetar ==
    /\ metar_text = None
    /\ metar_text' = <<>>
    /\ metar_parsed' = NoneData
    /\ UNCHANGED <<metar_ntokens, dcvars, mainvars, engvars, scrollvars, twin, layout, feed, tracker, line>>

\* The METAR is longer by one group
ReceiveGroup ==
    /\ metar_ntokens < MaxGroups
    /\ \E g \in MetarGroups :
          metar_text' = (IF metar_text = None THEN <<>> ELSE metar_text) \o g
    /\ metar_ntokens' = metar_ntokens + 1
    /\ metar_parsed' = NoneData
    /\ UNCHANGED <<dcvars, mainvars, engvars, scrollvars, twin, layout, feed, tracker, line>>

\* show_weather_info: _parse_weather_condition(metar),
\* _extract_temperature_from_metar(metar) and _extract_wind_from_metar(metar)
ParseMetar ==
    /\ metar_parsed = NoneData
    /\ metar_parsed' = [type |-> "parsed",
                        condition |-> ParseWeatherCondition(metar_text),
                        temperature |-> ExtractTemperatureFromMetar(metar_text),
                        wind |-> ExtractWindFromMetar(metar_text)]
    /\ UNCHANGED <<metar_text, metar_ntokens, dcvars, mainvars, engvars, scrollvars, twin, layout, feed, tracker, line>>

NextMetar ==
    \/ ReceiveEmptyMetar
    \/ ReceiveGroup
    \/ ParseMetar

SpecMetar == InitMetar /\ [][NextMetar]_vars

(***************************************************************************)
(* The main loop (main.py).                                                *)
(***************************************************************************)
\* time.time() when run() starts: some time after 1 January 1970
StartTime == 5 * WEATHER_REFRESH_INTERVAL

\* Truth value of a record in an if statement
Truthy(d) == d # NoneData

\* self.current_plane_data["type"] = "flight"
WithType(d) ==
    [k \in DOMAIN d \cup {"type"} |-> IF k = "type" THEN "flight" ELSE d[k]]

\* get_approaching_flights() raised an exception
PollError == [type |-> "error"]

\* What flight_logic.get_approaching_flights() gives a poll: a flight record, None
\* or an exception
PollOutcomes == {FlightUAL, FlightYYZ, NoneData, PollError}

\* The fallback record of get_weather_display()
WeatherUnavailable ==
    [type |-> "weather",
     metar |-> <<"W","e","a","t","h","e","r"," ","u","n","a","v","a","i","l","a","b","l","e">>,
     arrivals_runway |-> "Unknown", departures_runway |-> "Unknown"]

\* What flight_logic.get_weather_display() gives the main loop
WeatherOutcomes == {WeatherRain, WeatherUnavailable}

\* By how many seconds the clock has advanced when time.sleep(1.0) returns and the
\* next iteration reads it
SleepAdvances == {1, FLIGHT_POLL_INTERVAL, WEATHER_REFRESH_INTERVAL}

\* Mutant of IsNewDetection: every poll that reports a flight counts as a detection
IsNewDetectionEveryPoll(flight_data, detected) == Truthy(flight_data)

\* _check_for_planes: "if flight_data: if not self.plane_detected:"
IsNewDetection(flight_data, detected) == Truthy(flight_data) /\ ~detected

\* The display controller is left as it is
DisplayUnchanged ==
    UNCHANGED <<hardware_ready, front_buffer, back_buffer, dirty_pixels, dirty_regions,
                matrix, written, hw_writes, hw_before, presented, calls, arg, nops>>
    /\ UNCHANGED engvars
    /\ UNCHANGED scrollvars
    /\ UNCHANGED metarvars
    /\ UNCHANGED <<twin, layout, feed, tracker, line>>

\* FlightAnnouncer.__init__ with a display controller of either kind
InitMain ==
    /\ \E ready \in BOOLEAN :
          LET S == InitDC(ready)
          IN /\ front_buffer = S.front
             /\ back_buffer = S.back
             /\ dirty_pixels = S.dirty
             /\ dirty_regions = S.regions
             /\ matrix = S.hw
             /\ hardware_ready = S.ready
             /\ written = S.written
             /\ hw_writes = S.hw_writes
             /\ hw_before = S.hw_before
             /\ presented = S.presented
             /\ calls = S.calls
    /\ op = "init"
    /\ arg = NoneData
    /\ nops = 0
    /\ running = TRUE
    /\ plane_detected = FALSE
    /\ current_plane_data = NoneData
    /\ weather_data = NoneData
    /\ last_plane_check = 0
    /\ last_weather_update = 0
    /\ current_time = 0
    /\ now = StartTime
    /\ pc = "start"
    /\ poll_result = NoneData
    /\ last_reported = NoneData
    /\ celebrations = <<>>
    /\ stats = <<>>
    /\ npolls = 0
    /\ iterations = 0
    /\ celebrating = 0
    /\ EngineIdle
    /\ ScrollIdle
    /\ MetarIdle
    /\ TwinIdle
    /\ LayoutIdle
    /\ FeedIdle
    /\ TrackerIdle
    /\ LineIdle

\* run(): display_controller.clear_display() on startup
RunStart ==
    /\ pc = "start"
    /\ pc' = "loop"
    /\ Commit(ClearDisplay(DC), "clear_display", NoneData)
    /\ UNCHANGED <<nops, running, plane_detected, current_plane_data, weather_data,
                   last_plane_check, last_weather_update, current_time, now, poll_result, last_reported,
                   celebrations, stats, npolls, iterations, celebrating>>

\* run(): "while self.running:" true, "current_time = time.time()"
LoopEnter ==
    /\ pc = "loop" /\ running /\ iterations < MaxIterations
    /\ pc' = "poll"
    /\ current_time' = now
    /\ iterations' = iterations + 1
    /\ op' = "loop"
    /\ DisplayUnchanged
    /\ UNCHANGED <<running, plane_detected, current_plane_data, weather_data,
                   last_plane_check, last_weather_update, now, poll_result, last_reported, celebrations,
                   stats, npolls, celebrating>>

\* Mutant of LoopExit: the loop is left without _cleanup()
LoopExitWithoutCleanup ==
    /\ pc = "loop" /\ ~running
    /\ pc' = "done"
    /\ Commit(DC, "exit", NoneData)
    /\ UNCHANGED <<nops, running, plane_detected, current_plane_data, weather_data,
                   last_plane_check, last_weather_update, current_time, now, poll_result,
                   last_reported, celebrations, stats, npolls, iterations, celebrating>>

\* run(): "while self.running:" false, then finally: _cleanup()
LoopExit ==
    /\ pc = "loop" /\ ~running
    /\ pc' = "done"
    /\ Commit(ClearDisplay(DC), "cleanup", NoneData)
    /\ UNCHANGED <<nops, running, plane_detected, current_plane_data, weather_data,
                   last_plane_check, last_weather_update, current_time, now, poll_result, last_reported,
                   celebrations, stats, npolls, iterations, celebrating>>

\* Mutant of PositionAfterPoll: the loop goes on while the celebration runs
PositionAfterPollDetached(celebrationStarted) == "weather"

\* Where run() is after the poll: show_plane_celebration is an ordinary call, so
\* _check_for_planes and with it the loop wait until it has returned
PositionAfterPoll(celebrationStarted) ==
    IF celebrationStarted THEN "celebration" ELSE "weather"

\* Mutant of CheckForPlanes: a flight reported while one is shown does not replace
\* the record being shown
CheckForPlanesKeepsFirstFlight ==
    /\ pc = "poll"
    /\ current_time - last_plane_check >= FLIGHT_POLL_INTERVAL
    /\ \E flight_data \in PollOutcomes :
          /\ poll_result' = flight_data
          /\ last_reported' = IF flight_data = PollError THEN last_reported
                            ELSE flight_data
          /\ Commit(DC, "poll", NoneData)
          /\ IF flight_data = PollError
             THEN UNCHANGED <<plane_detected, current_plane_data, celebrations, celebrating>>
             ELSE IF IsNewDetection(flight_data, plane_detected)
             THEN /\ plane_detected' = TRUE
                  /\ current_plane_data' = WithType(flight_data)
                  /\ celebrations' = Append(celebrations, flight_data.flight_id)
                  /\ celebrating' = celebrating + 1
             ELSE IF Truthy(flight_data)
             THEN UNCHANGED <<current_plane_data, plane_detected, celebrations, celebrating>>
             ELSE /\ plane_detected' = FALSE
                  /\ current_plane_data' = IF plane_detected THEN NoneData
                                           ELSE current_plane_data
                  /\ UNCHANGED <<celebrations, celebrating>>
    /\ last_plane_check' = IF celebrating' > celebrating THEN last_plane_check
                           ELSE current_time
    /\ npolls' = npolls + 1
    /\ pc' = PositionAfterPoll(celebrating' > celebrating)
    /\ UNCHANGED <<nops, running, weather_data, last_weather_update, current_time, now,
                   iterations, stats>>

\* Mutant of CheckForPlanes: the record of a flight no longer detected is kept
CheckForPlanesKeepsLostFlight ==
    /\ pc = "poll"
    /\ current_time - last_plane_check >= FLIGHT_POLL_INTERVAL
    /\ \E flight_data \in PollOutcomes :
          /\ poll_result' = flight_data
          /\ last_reported' = IF flight_data = PollError THEN last_reported
                            ELSE flight_data
          /\ Commit(DC, "poll", NoneData)
          /\ IF flight_data = PollError
             THEN UNCHANGED <<plane_detected, current_plane_data, celebrations, celebrating>>
             ELSE IF IsNewDetection(flight_data, plane_detected)
             THEN /\ plane_detected' = TRUE
                  /\ current_plane_data' = WithType(flight_data)
                  /\ celebrations' = Append(celebrations, flight_data.flight_id)
                  /\ celebrating' = celebrating + 1
             ELSE IF Truthy(flight_data)
             THEN /\ current_plane_data' = WithType(flight_data)
                  /\ UNCHANGED <<plane_detected, celebrations, celebrating>>
             ELSE /\ plane_detected' = FALSE
                  /\ current_plane_data' = current_plane_data
                  /\ UNCHANGED <<celebrations, celebrating>>
    /\ last_plane_check' = IF celebrating' > celebrating THEN last_plane_check
                           ELSE current_time
    /\ npolls' = npolls + 1
    /\ pc' = PositionAfterPoll(celebrating' > celebrating)
    /\ UNCHANGED <<nops, running, weather_data, last_weather_update, current_time, now,
                   iterations, stats>>

\* run(): the flight poll is due; _check_for_planes() up to its return or, on a new
\* detection, up to its call of show_plane_celebration
CheckForPlanes ==
    /\ pc = "poll"
    /\ current_time - last_plane_check >= FLIGHT_POLL_INTERVAL
    /\ \E flight_data \in PollOutcomes :
          /\ poll_result' = flight_data
          /\ last_reported' = IF flight_data = PollError THEN last_reported
                            ELSE flight_data
          /\ Commit(DC, "poll", NoneData)
          /\ IF flight_data = PollError
             THEN UNCHANGED <<plane_detected, current_plane_data, celebrations, celebrating>>
             ELSE IF IsNewDetection(flight_data, plane_detected)
             THEN /\ plane_detected' = TRUE
                  /\ current_plane_data' = WithType(flight_data)
                  /\ celebrations' = Append(celebrations, flight_data.flight_id)
                  /\ celebrating' = celebrating + 1
             ELSE IF Truthy(flight_data)
             THEN /\ current_plane_data' = WithType(flight_data)
                  /\ UNCHANGED <<plane_detected, celebrations, celebrating>>
             ELSE /\ plane_detected' = FALSE
                  /\ current_plane_data' = IF plane_detected THEN NoneData
                                           ELSE current_plane_data
                  /\ UNCHANGED <<celebrations, celebrating>>
    /\ last_plane_check' = IF celebrating' > celebrating THEN last_plane_check
                           ELSE current_time
    /\ npolls' = npolls + 1
    /\ pc' = PositionAfterPoll(celebrating' > celebrating)
    /\ UNCHANGED <<nops, running, weather_data, last_weather_update, current_time, now,
                   iterations, stats>>

\* _check_for_planes(): show_plane_celebration(flight_data) runs and returns, the
\* flight is recorded by stats_tracker.record_flight; run(): last_plane_check =
\* current_time
CelebrationReturns ==
    /\ pc = "celebration"
    /\ Commit(ShowPlaneCelebration(DC, current_plane_data), "show_plane_celebration",
              current_plane_data)
    /\ stats' = Append(stats, current_plane_data.flight_id)
    /\ celebrating' = celebrating - 1
    /\ last_plane_check' = current_time
    /\ pc' = "weather"
    /\ UNCHANGED <<nops, running, plane_detected, current_plane_data, weather_data,
                   last_weather_update, current_time, now, poll_result, last_reported, celebrations,
                   npolls, iterations>>

\* run(): the flight poll is not due
SkipPlaneCheck ==
    /\ pc = "poll"
    /\ ~(current_time - last_plane_check >= FLIGHT_POLL_INTERVAL)
    /\ pc' = "weather"
    /\ op' = "skip_poll"
    /\ DisplayUnchanged
    /\ UNCHANGED <<running, plane_detected, current_plane_data, weather_data,
                   last_plane_check, last_weather_update, current_time, now, poll_result, last_reported,
                   celebrations, stats, npolls, iterations, celebrating>>

\* Mutant of UpdateWeather: the weather is refreshed whether or not it is due
UpdateWeatherEveryIteration ==
    /\ pc = "weather"
    /\ \E w \in WeatherOutcomes : weather_data' = w
    /\ last_weather_update' = current_time
    /\ pc' = "display"
    /\ op' = "update_weather"
    /\ DisplayUnchanged
    /\ UNCHANGED <<running, plane_detected, current_plane_data, last_plane_check,
                   current_time, now, poll_result, last_reported, celebrations, stats, npolls, iterations, celebrating>>

\* run(): the weather refresh is due; _update_weather(), last_weather_update = current_time
UpdateWeather ==
    /\ pc = "weather"
    /\ current_time - last_weather_update >= WEATHER_REFRESH_INTERVAL
    /\ \E w \in WeatherOutcomes : weather_data' = w
    /\ last_weather_update' = current_time
    /\ pc' = "display"
    /\ op' = "update_weather"
    /\ DisplayUnchanged
    /\ UNCHANGED <<running, plane_detected, current_plane_data, last_plane_check,
                   current_time, now, poll_result, last_reported, celebrations, stats, npolls, iterations, celebrating>>

\* run(): the weather refresh is not due
SkipWeather ==
    /\ pc = "weather"
    /\ ~(current_time - last_weather_update >= WEATHER_REFRESH_INTERVAL)
    /\ pc' = "display"
    /\ op' = "skip_weather"
    /\ DisplayUnchanged
    /\ UNCHANGED <<running, plane_detected, current_plane_data, weather_data,
                   last_plane_check, last_weather_update, current_time, now, poll_result, last_reported,
                   celebrations, stats, npolls, iterations, celebrating>>

\* run(): the display logic, _display_flight_data(self.current_plane_data)
DisplayFlightData ==
    /\ pc = "display"
    /\ plane_detected /\ Truthy(current_plane_data)
    /\ pc' = "sleep"
    /\ Commit(ShowFlightInfo(DC, current_plane_data), "show_flight_info",
              current_plane_data)
    /\ UNCHANGED <<nops, running, plane_detected, current_plane_data, weather_data,
                   last_plane_check, last_weather_update, current_time, now, poll_result, last_reported,
                   celebrations, stats, npolls, iterations, celebrating>>

\* Mutant of DisplayWeather: the fallback record of a failed fetch is not displayed
DisplayWeatherSkipsFallback ==
    /\ pc = "display"
    /\ ~(plane_detected /\ Truthy(current_plane_data))
    /\ pc' = "sleep"
    /\ \E fetched \in WeatherOutcomes :
          LET data == IF Truthy(weather_data) THEN weather_data ELSE fetched
          IN /\ weather_data' = data
             /\ IF data = WeatherUnavailable
                THEN Commit(DC, "show_weather_info", data)
                ELSE Commit(ShowWeatherInfo(DC, data), "show_weather_info", data)
    /\ UNCHANGED <<nops, running, plane_detected, current_plane_data, last_plane_check,
                   last_weather_update, current_time, now, poll_result, last_reported, celebrations,
                   stats, npolls, iterations, celebrating>>

\* run(): the display logic, _display_weather()
DisplayWeather ==
    /\ pc = "display"
    /\ ~(plane_detected /\ Truthy(current_plane_data))
    /\ pc' = "sleep"
    /\ \E fetched \in WeatherOutcomes :
          LET data == IF Truthy(weather_data) THEN weather_data ELSE fetched
          IN /\ weather_data' = data
             /\ Commit(ShowWeatherInfo(DC, data), "show_weather_info", data)
    /\ UNCHANGED <<nops, running, plane_detected, current_plane_data, last_plane_check,
                   last_weather_update, current_time, now, poll_result, last_reported, celebrations,
                   stats, npolls, iterations, celebrating>>

\* run(): time.sleep(1.0)
Sleep ==
    /\ pc = "sleep"
    /\ pc' = "loop"
    /\ \E d \in SleepAdvances : now' = now + d
    /\ op' = "sleep"
    /\ DisplayUnchanged
    /\ UNCHANGED <<running, plane_detected, current_plane_data, weather_data,
                   last_plane_check, last_weather_update, current_time, poll_result, last_reported,
                   celebrations, stats, npolls, iterations, celebrating>>

\* _signal_handler(signum, frame), at any point of the loop
SignalHandler ==
    /\ pc \in {"loop", "poll", "celebration", "weather", "display", "sleep"}
    /\ running
    /\ running' = FALSE
    /\ op' = "signal"
    /\ DisplayUnchanged
    /\ UNCHANGED <<plane_detected, current_plane_data, weather_data, last_plane_check,
                   last_weather_update, current_time, now, pc, poll_result, last_reported, celebrations,
                   stats, npolls, iterations, celebrating>>

NextMain ==
    \/ RunStart
    \/ LoopEnter
    \/ LoopExit
    \/ CheckForPlanes
    \/ CelebrationReturns
    \/ SkipPlaneCheck
    \/ UpdateWeather
    \/ SkipWeather
    \/ DisplayFlightData
    \/ DisplayWeather
    \/ Sleep
    \/ SignalHandler

SpecMain == InitMain /\ [][NextMain]_vars

(***************************************************************************)
(* SpecShutdown: the main loop as in SpecMain, where in addition an        *)
(* exception may leave the loop body.                                      *)
(***************************************************************************)
\* run(): an exception (or KeyboardInterrupt) leaves one of the calls of the loop
\* body; "except ...: print(...)", then finally: _cleanup()
UnexpectedException ==
    /\ pc \in {"poll", "weather", "display", "sleep"}
    /\ pc' = "done"
    /\ Commit(ClearDisplay(DC), "cleanup", NoneData)
    /\ UNCHANGED <<nops, running, plane_detected, current_plane_data, weather_data,
                   last_plane_check, last_weather_update, current_time, now, poll_result,
                   last_reported, celebrations, stats, npolls, iterations, celebrating>>

NextShutdown ==
    \/ NextMain
    \/ UnexpectedException

SpecShutdown == InitMain /\ [][NextShutdown]_vars

(***************************************************************************)
(* The display engine (display_engine: alternating_text,                   *)
(* compute_display_state and the scroll animator), modelled from its       *)
(* specification and from its caller test_line1_switching.py.              *)
(* Engine times are integers, UnitsPerSecond units to the second.          *)
(***************************************************************************)
\* Durations of the engine: row 0 and row 1 dwell, scroll pauses, scroll tick
LINE1_DWELL == 5 * UnitsPerSecond
LINE2_DWELL == 3 * UnitsPerSecond
SCROLL_PAUSE == 2 * UnitsPerSecond
SCROLL_TICK == UnitsPerSecond \div 5

\* Mutant of AlternatingText: the index is rounded to the nearest window
AlternatingTextRounded(candidates, dwell, t) ==
    candidates[(((t + dwell \div 2) \div dwell) % Len(candidates)) + 1]

\* Mutant of AlternatingText: the index moves on only after the boundary (> for >=)
AlternatingTextLate(candidates, dwell, t) ==
    candidates[((IF t > 0 THEN (t - 1) \div dwell ELSE 0) % Len(candidates)) + 1]

\* alternating_text(candidates, dwell, t): floor(t / dwell) mod len(candidates)
AlternatingText(candidates, dwell, t) ==
    candidates[((t \div dwell) % Len(candidates)) + 1]

\* measureWidth(text): a fixed advance of 6 pixels per glyph
MeasureWidth(text) == Len(text) * 6

\* A row without scroll state
NoScroll == [text |-> <<>>, phase |-> "None", phaseStartTime |-> 0]

\* Mutant of AdvancePhase: at most one transition per call, the new phase starting
\* at the time of the call
AdvancePhaseOnePerCall(state, t, maxOffset, loop) ==
    LET elapsed == t - state.phaseStartTime
    IN IF state.phase = "PauseStart" /\ elapsed >= SCROLL_PAUSE
       THEN [state EXCEPT !.phase = "Scrolling", !.phaseStartTime = t]
       ELSE IF state.phase = "Scrolling" /\ elapsed >= maxOffset * SCROLL_TICK
       THEN [state EXCEPT !.phase = "PauseEnd", !.phaseStartTime = t]
       ELSE IF state.phase = "PauseEnd" /\ elapsed >= SCROLL_PAUSE
       THEN [state EXCEPT !.phase = IF loop THEN "PauseStart" ELSE "Complete",
                          !.phaseStartTime = t]
       ELSE state

\* The time-driven phase transitions of a scroll state up to time t
RECURSIVE AdvancePhase(_, _, _, _)
AdvancePhase(state, t, maxOffset, loop) ==
    LET elapsed == t - state.phaseStartTime
    IN IF state.phase = "PauseStart" /\ elapsed >= SCROLL_PAUSE
       THEN AdvancePhase([state EXCEPT !.phase = "Scrolling",
                                       !.phaseStartTime = @ + SCROLL_PAUSE],
                         t, maxOffset, loop)
       ELSE IF state.phase = "Scrolling" /\ elapsed >= maxOffset * SCROLL_TICK
       THEN AdvancePhase([state EXCEPT !.phase = "PauseEnd",
                                       !.phaseStartTime = @ + maxOffset * SCROLL_TICK],
                         t, maxOffset, loop)
       ELSE IF state.phase = "PauseEnd" /\ elapsed >= SCROLL_PAUSE
       THEN IF loop
            THEN AdvancePhase([state EXCEPT !.phase = "PauseStart",
                                            !.phaseStartTime = @ + SCROLL_PAUSE],
                              t, maxOffset, loop)
            ELSE [state EXCEPT !.phase = "Complete", !.phaseStartTime = @ + SCROLL_PAUSE]
       ELSE state

\* Mutant of EnterScroll: the scroll starts again on every call
EnterScrollAlwaysReset(state, text, t) ==
    [text |-> text, phase |-> "PauseStart", phaseStartTime |-> t]

\* Mutant of EnterScroll: a new text takes over the phase the text before was in
EnterScrollKeepsPhase(state, text, t) ==
    IF state.phase # "None"
    THEN [state EXCEPT !.text = text]
    ELSE [text |-> text, phase |-> "PauseStart", phaseStartTime |-> t]

\* The scroll state a call starts from: kept for an unchanged text, reset otherwise
EnterScroll(state, text, t) ==
    IF state.phase # "None" /\ state.text = text
    THEN state
    ELSE [text |-> text, phase |-> "PauseStart", phaseStartTime |-> t]

\* Mutant of GetVisibleSlice: phaseStartTime is reset on every call
GetVisibleSliceRestarted(state, text, maxWidthPixels, t, loop) ==
    IF MeasureWidth(text) <= maxWidthPixels
    THEN [slice |-> text, state |-> NoScroll]
    ELSE LET fit == maxWidthPixels \div 6
             maxOffset == Len(text) - fit
             s0 == EnterScroll(state, text, t)
             s1 == AdvancePhase(s0, t, maxOffset, loop)
             ticks == (t - s1.phaseStartTime) \div SCROLL_TICK
             offset == IF s1.phase = "PauseStart" THEN 0
                       ELSE IF s1.phase = "Scrolling"
                       THEN (IF ticks < 0 THEN 0 ELSE IF ticks > maxOffset THEN maxOffset
                             ELSE ticks)
                       ELSE maxOffset
         IN [slice |-> SubSeq(text, offset + 1, offset + fit),
             state |-> [text |-> text, phase |-> "PauseStart", phaseStartTime |-> t]]

\* Mutant of GetVisibleSlice: the offset advances with every time unit, not every tick
GetVisibleSliceByTimeUnit(state, text, maxWidthPixels, t, loop) ==
    IF MeasureWidth(text) <= maxWidthPixels
    THEN [slice |-> text, state |-> NoScroll]
    ELSE LET fit == maxWidthPixels \div 6
             maxOffset == Len(text) - fit
             s0 == EnterScroll(state, text, t)
             s1 == AdvancePhase(s0, t, maxOffset, loop)
             ticks == t - s1.phaseStartTime
             offset == IF s1.phase = "PauseStart" THEN 0
                       ELSE IF s1.phase = "Scrolling"
                       THEN (IF ticks < 0 THEN 0 ELSE IF ticks > maxOffset THEN maxOffset
                             ELSE ticks)
                       ELSE maxOffset
         IN [slice |-> SubSeq(text, offset + 1, offset + fit), state |-> s1]

\* getVisibleSlice(state, text, maxWidthPixels, now) -> (slice, state')
GetVisibleSlice(state, text, maxWidthPixels, t, loop) ==
    IF MeasureWidth(text) <= maxWidthPixels
    THEN [slice |-> text, state |-> NoScroll]
    ELSE LET fit == maxWidthPixels \div 6
             maxOffset == Len(text) - fit
             s0 == EnterScroll(state, text, t)
             s1 == AdvancePhase(s0, t, maxOffset, loop)
             ticks == (t - s1.phaseStartTime) \div SCROLL_TICK
             offset == IF s1.phase = "PauseStart" THEN 0
                       ELSE IF s1.phase = "Scrolling"
                       THEN (IF ticks < 0 THEN 0 ELSE IF ticks > maxOffset THEN maxOffset
                             ELSE ticks)
                       ELSE maxOffset
         IN [slice |-> SubSeq(text, offset + 1, offset + fit), state |-> s1]
\* The NATO phonetic word of each ATIS information letter
NatoPhonetic ==
    [letter \in {UpperCase[i] : i \in DOMAIN UpperCase} |->
       CASE letter = "A" -> <<"A","L","P","H","A">>
         [] letter = "B" -> <<"B","R","A","V","O">>
         [] letter = "C" -> <<"C","H","A","R","L","I","E">>
         [] letter = "D" -> <<"D","E","L","T","A">>
         [] letter = "E" -> <<"E","C","H","O">>
         [] letter = "F" -> <<"F","O","X","T","R","O","T">>
         [] letter = "G" -> <<"G","O","L","F">>
         [] letter = "H" -> <<"H","O","T","E","L">>
         [] letter = "I" -> <<"I","N","D","I","A">>
         [] letter = "J" -> <<"J","U","L","I","E","T">>
         [] letter = "K" -> <<"K","I","L","O">>
         [] letter = "L" -> <<"L","I","M","A">>
         [] letter = "M" -> <<"M","I","K","E">>
         [] letter = "N" -> <<"N","O","V","E","M","B","E","R">>
         [] letter = "O" -> <<"O","S","C","A","R">>
         [] letter = "P" -> <<"P","A","P","A">>
         [] letter = "Q" -> <<"Q","U","E","B","E","C">>
         [] letter = "R" -> <<"R","O","M","E","O">>
         [] letter = "S" -> <<"S","I","E","R","R","A">>
         [] letter = "T" -> <<"T","A","N","G","O">>
         [] letter = "U" -> <<"U","N","I","F","O","R","M">>
         [] letter = "V" -> <<"V","I","C","T","O","R">>
         [] letter = "W" -> <<"W","H","I","S","K","E","Y">>
         [] letter = "X" -> <<"X","R","A","Y">>
         [] letter = "Y" -> <<"Y","A","N","K","E","E">>
         [] letter = "Z" -> <<"Z","U","L","U">>]

\* The ATIS readout of row 1
AtisText(letter) ==
    <<"Y","O","U"," ","H","A","V","E"," ","I","N","F","O","R","M","A","T","I","O","N"," ">> \o NatoPhonetic[letter] \o <<" ">>

\* The runway-status text of row 1
RunwayText(weather) ==
    <<"A","R","R"," ">> \o Get(weather, "arrivals_runway", <<"?","?">>)
       \o <<" ","D","E","P"," ">> \o Get(weather, "departures_runway", <<"?","?">>)

\* Position of the first occurrence of a remarks delimiter " RMK" in a METAR, 0 if none
RemarksAt(metar) ==
    LET hits == {i \in 1..Len(metar) : i + 3 <= Len(metar)
                                        /\ SubSeq(metar, i, i + 3) = <<" ","R","M","K">>}
    IN IF hits = {} THEN 0 ELSE CHOOSE i \in hits : \A j \in hits : i <= j

\* A text with runs of blanks collapsed to one blank
RECURSIVE CollapseBlanks(_)
CollapseBlanks(text) ==
    IF Len(text) < 2 THEN text
    ELSE IF text[1] = " " /\ text[2] = " " THEN CollapseBlanks(Tail(text))
    ELSE <<text[1]>> \o CollapseBlanks(Tail(text))

\* The cleaned METAR of row 2: remarks stripped, whitespace collapsed; a placeholder
\* if the record has no METAR
CleanMetar(weather) ==
    LET metar == Get(weather, "metar", <<>>)
        cut == RemarksAt(metar)
    IN IF metar = <<>> THEN <<"W","e","a","t","h","e","r"," ","u","n","a","v","a","i","l","a","b","l","e">>
       ELSE CollapseBlanks(IF cut = 0 THEN metar ELSE SubSeq(metar, 1, cut - 1))

\* One DisplayRow
Row(text, color, icon) == [text |-> text, color |-> color, icon |-> icon]

\* The candidates of row 0 in weather mode (test_line1_switching.py:36)
Line1Candidates == <<"NO RWY 04 ARRIVALS", "WEATHER AT KLGA:">>

\* Mutant of ComputeDisplayState: the alternation of row 0 in weather mode restarts
\* whenever the scroll of row 1 restarts
ComputeDisplayStateRow0Restarted(t, app_data, scroll1, scroll2, scroll3) ==
    IF Truthy(app_data.flight_data)
    THEN LET f == app_data.flight_data
             aircraft_type == Get(f, "aircraft_type", <<>>)
             r1 == GetVisibleSlice(scroll1, aircraft_type, ENGINE_WIDTH, t, TRUE)
             r2 == GetVisibleSlice(scroll2, Get(f, "callsign", <<>>), ENGINE_WIDTH, t, TRUE)
             r3 == GetVisibleSlice(scroll3, Get(f, "route", <<>>), ENGINE_WIDTH, t, TRUE)
         IN [rows |-> << Row(r1.slice, ROW_ONE_COLOR,
                             IF Contains(aircraft_type, <<"C","a","n","a","d","a","i","r">>)
                             THEN "canada_flag" ELSE "None"),
                         Row(r2.slice, ROW_TWO_COLOR, "None"),
                         Row(r3.slice, ROW_THREE_COLOR,
                             IF Get(f, "origin", "") \in CANADIAN_AIRPORTS
                             THEN "canada_flag" ELSE "None") >>,
             scroll1 |-> r1.state, scroll2 |-> r2.state, scroll3 |-> r3.state]
    ELSE IF Truthy(app_data.weather_data)
    THEN LET w == app_data.weather_data
             line2 == AlternatingText(<<RunwayText(w), AtisText(Get(w, "atis_letter", "A"))>>,
                                      LINE2_DWELL, t)
             r2 == GetVisibleSlice(scroll2, line2, ENGINE_WIDTH, t, FALSE)
             r3 == GetVisibleSlice(scroll3, CleanMetar(w), ENGINE_WIDTH, t, TRUE)
         IN [rows |-> << Row(AlternatingText(Line1Candidates, LINE1_DWELL,
                                             t - r2.state.phaseStartTime),
                             ROW_ONE_COLOR, "None"),
                         Row(r2.slice, ROW_TWO_COLOR, "None"),
                         Row(r3.slice, ROW_THREE_COLOR, "None") >>,
             scroll1 |-> NoScroll, scroll2 |-> r2.state, scroll3 |-> r3.state]
    ELSE [rows |-> << Row("04 ACTIVE", ROW_ONE_COLOR, "None"),
                      Row(<<"N","o"," ","A","p","p","r","o","a","c","h">>, ROW_TWO_COLOR,
                          "None"),
                      Row(<<"T","r","a","f","f","i","c">>, ROW_THREE_COLOR, "None") >>,
          scroll1 |-> NoScroll, scroll2 |-> NoScroll, scroll3 |-> NoScroll]

\* compute_display_state(t, app_data) with the scroll states of the three rows:
\* the three rows and the scroll states left behind
ComputeDisplayState(t, app_data, scroll1, scroll2, scroll3) ==
    IF Truthy(app_data.flight_data)
    THEN LET f == app_data.flight_data
             aircraft_type == Get(f, "aircraft_type", <<>>)
             r1 == GetVisibleSlice(scroll1, aircraft_type, ENGINE_WIDTH, t, TRUE)
             r2 == GetVisibleSlice(scroll2, Get(f, "callsign", <<>>), ENGINE_WIDTH, t, TRUE)
             r3 == GetVisibleSlice(scroll3, Get(f, "route", <<>>), ENGINE_WIDTH, t, TRUE)
         IN [rows |-> << Row(r1.slice, ROW_ONE_COLOR,
                             IF Contains(aircraft_type, <<"C","a","n","a","d","a","i","r">>)
                             THEN "canada_flag" ELSE "None"),
                         Row(r2.slice, ROW_TWO_COLOR, "None"),
                         Row(r3.slice, ROW_THREE_COLOR,
                             IF Get(f, "origin", "") \in CANADIAN_AIRPORTS
                             THEN "canada_flag" ELSE "None") >>,
             scroll1 |-> r1.state, scroll2 |-> r2.state, scroll3 |-> r3.state]
    ELSE IF Truthy(app_data.weather_data)
    THEN LET w == app_data.weather_data
             line2 == AlternatingText(<<RunwayText(w), AtisText(Get(w, "atis_letter", "A"))>>,
                                      LINE2_DWELL, t)
             r2 == GetVisibleSlice(scroll2, line2, ENGINE_WIDTH, t, FALSE)
             r3 == GetVisibleSlice(scroll3, CleanMetar(w), ENGINE_WIDTH, t, TRUE)
         IN [rows |-> << Row(AlternatingText(Line1Candidates, LINE1_DWELL, t),
                             ROW_ONE_COLOR, "None"),
                         Row(r2.slice, ROW_TWO_COLOR, "None"),
                         Row(r3.slice, ROW_THREE_COLOR, "None") >>,
             scroll1 |-> NoScroll, scroll2 |-> r2.state, scroll3 |-> r3.state]
    ELSE [rows |-> << Row("04 ACTIVE", ROW_ONE_COLOR, "None"),
                      Row(<<"N","o"," ","A","p","p","r","o","a","c","h">>, ROW_TWO_COLOR,
                          "None"),
                      Row(<<"T","r","a","f","f","i","c">>, ROW_THREE_COLOR, "None") >>,
          scroll1 |-> NoScroll, scroll2 |-> NoScroll, scroll3 |-> NoScroll]

\* The weather record of the engine (test_line1_switching.py:11-16, the METAR
\* shortened and with a remarks section)
EngineWeather ==
    [arrivals_runway |-> <<"3","1">>, departures_runway |-> <<"0","4">>,
     metar |-> <<"K","L","G","A"," ","1","7","1","6","5","1","Z"," ","2","5","0","0","9","G","1","9","K","T"," "," ","1","0","S","M"," ","3","1","/","2","1"," ","A","2","9","8","4"," ","R","M","K"," ","A","O","2">>,
     atis_letter |-> "H"]

\* AppData(flight_data, weather_data, runway_status) given to compute_display_state:
\* weather mode and flight mode
AppDataInputs ==
    {[flight_data |-> NoneData, weather_data |-> EngineWeather],
     [flight_data |-> FlightCRJ, weather_data |-> EngineWeather]}

\* The times the engine is queried at: 0 s, 4.95 s, 5.00 s, 6.95 s and 10.00 s
\* (test_line1_switching.py:29-32, 53-55)
QueryTimes ==
    {0, LINE1_DWELL - 1, LINE1_DWELL, 7 * UnitsPerSecond - 1, 2 * LINE1_DWELL}

\* Candidate lists and dwell times <<candidates, dwell>> given to the stand-alone
\* alternator; the last pair is the one of test_line1_switching.py:36
AlternatorInputs == {<< <<"A", "B">>, LINE1_DWELL >>, << <<"A", "B", "C">>, LINE2_DWELL >>,
                     << Line1Candidates, LINE1_DWELL >>}

\* No call made yet
NoCall == [t |-> -1, app_data |-> NoneData, alone |-> "None", rows |-> <<>>]

\* The engine before any query
InitEngine ==
    /\ \E a \in AlternatorInputs : alt_candidates = a[1] /\ alt_dwell = a[2]
    /\ line1_scroll = NoScroll
    /\ line2_scroll = NoScroll
    /\ line3_scroll = NoScroll
    /\ last = NoCall
    /\ reference = NoCall
    /\ repeated = FALSE
    /\ stable = TRUE
    /\ ncalls = 0
    /\ DisplayIdle
    /\ MainIdle
    /\ ScrollIdle
    /\ MetarIdle
    /\ TwinIdle
    /\ LayoutIdle
    /\ FeedIdle
    /\ TrackerIdle
    /\ LineIdle

\* One pass of the loop of test_line1_switching.py:34-40 at time t:
\* alternating_text(candidates, dwell, t) and compute_display_state(t, app_data)
QueryAt(t, app_data) ==
    LET alone == AlternatingText(alt_candidates, alt_dwell, t)
        r == ComputeDisplayState(t, app_data, line1_scroll, line2_scroll, line3_scroll)
        same == last # NoCall /\ last.t = t /\ last.app_data = app_data
    IN /\ ncalls < MaxCalls
       /\ ncalls' = ncalls + 1
       /\ last' = [t |-> t, app_data |-> app_data, alone |-> alone, rows |-> r.rows]
       /\ line1_scroll' = r.scroll1
       /\ line2_scroll' = r.scroll2
       /\ line3_scroll' = r.scroll3
       /\ repeated' = same
       /\ stable' = IF same THEN r.rows = last.rows ELSE TRUE
       /\ UNCHANGED <<alt_candidates, alt_dwell, dcvars, mainvars, scrollvars, metarvars, twin, layout, feed, tracker, line>>

\* A query of the engine
Query ==
    \E t \in QueryTimes, app_data \in AppDataInputs :
       QueryAt(t, app_data) /\ UNCHANGED reference

\* A query of the engine whose inputs and results are kept for comparison
QueryReference ==
    /\ reference = NoCall
    /\ \E t \in QueryTimes, app_data \in AppDataInputs :
          QueryAt(t, app_data) /\ reference' = last'

NextEngine ==
    \/ Query
    \/ QueryReference

SpecEngine == InitEngine /\ [][NextEngine]_vars

(***************************************************************************)
(* SpecScroll: one row rendered through the scroll animator at increasing  *)
(* times, with calls any distance apart and the text changing on the way.  *)
(***************************************************************************)
\* The texts the row is given, in the order it can be given them: the ATIS readout
\* "YOU HAVE INFORMATION ALPHA ", the runway status (which fits the row) and the
\* ATIS readout "YOU HAVE INFORMATION NOVEMBER "
ScrollTexts == << AtisText("A"), RunwayText(EngineWeather), AtisText("N") >>

\* Position of a text in ScrollTexts, 0 before the first call
TextIndex(text) ==
    IF text = <<>> THEN 0 ELSE CHOOSE i \in DOMAIN ScrollTexts : ScrollTexts[i] = text

\* Time between a call and the next: none, one time unit, a tick, a whole pause
\* (longer than the Scrolling phase of the first text)
ScrollSteps == {0, 1, SCROLL_TICK, SCROLL_PAUSE}

\* The last time the row is rendered at
ScrollHorizon == 4 * SCROLL_PAUSE

\* The row before its first render
InitScroll ==
    /\ scroll_state = NoScroll
    /\ scroll_text = <<>>
    /\ scroll_width = ENGINE_WIDTH
    /\ scroll_loop \in BOOLEAN
    /\ scroll_now = 0
    /\ scroll_first = 0
    /\ scroll_slice = <<>>
    /\ scroll_calls = 0
    /\ scroll_interrupted = "None"
    /\ DisplayIdle
    /\ MainIdle
    /\ EngineIdle
    /\ MetarIdle
    /\ TwinIdle
    /\ LayoutIdle
    /\ FeedIdle
    /\ TrackerIdle
    /\ LineIdle

\* getVisibleSlice(state, text, maxWidthPixels, now) at time t, the state' it returns
\* kept as the row's state
RenderAt(text, t) ==
    LET r == GetVisibleSlice(scroll_state, text, scroll_width, t, scroll_loop)
        changed == text # scroll_text
    IN /\ t <= ScrollHorizon
       /\ scroll_state' = r.state
       /\ scroll_slice' = r.slice
       /\ scroll_text' = text
       /\ scroll_now' = t
       /\ scroll_first' = IF changed THEN t ELSE scroll_first
       /\ scroll_calls' = IF changed THEN 1
                          ELSE IF scroll_calls < 3 THEN scroll_calls + 1 ELSE 3
       /\ scroll_interrupted' = IF changed THEN scroll_state.phase ELSE scroll_interrupted
       /\ UNCHANGED <<scroll_width, scroll_loop, dcvars, mainvars, engvars, metarvars, twin, layout, feed, tracker, line>>

\* The row is rendered again with the text it has
Render ==
    /\ scroll_calls > 0
    /\ \E dt \in ScrollSteps : RenderAt(scroll_text, scroll_now + dt)

\* The row is rendered with another text
RenderNewText ==
    \E dt \in ScrollSteps, i \in DOMAIN ScrollTexts :
       /\ i > TextIndex(scroll_text)
       /\ RenderAt(ScrollTexts[i], scroll_now + dt)

NextScroll ==
    \/ Render
    \/ RenderNewText

SpecScroll == InitScroll /\ [][NextScroll]_vars

(***************************************************************************)
(* SpecLayout: the text layout primitive truncates a text to a width and   *)
(* then truncates what it returned to the same width.                      *)
(***************************************************************************)
\* The ellipsis marker
ELLIPSIS == <<".", ".", ".">>

\* A truncation that removes a single trailing character before the marker,
\* however much too wide the text is
TruncateOneCharacter(text, maxPixels) ==
    IF MeasureWidth(text) <= maxPixels
    THEN text
    ELSE SubSeq(text, 1, Len(text) - 1) \o ELLIPSIS

\* truncateToWidth(text, maxPixels): the text if it fits; otherwise trailing
\* characters are removed and the ellipsis marker appended so that the result is
\* at most maxPixels wide (a width too small for the marker takes what fits of it)
TruncateToWidth(text, maxPixels) ==
    IF MeasureWidth(text) <= maxPixels
    THEN text
    ELSE LET cells == maxPixels \div 6
             marker == IF cells < Len(ELLIPSIS) THEN cells ELSE Len(ELLIPSIS)
         IN SubSeq(text, 1, cells - marker) \o SubSeq(ELLIPSIS, 1, marker)

\* Characters of the texts: a letter, the character of the marker, a space
TruncChars == {"A", ".", " "}

\* The texts: every text of at most MaxTruncLen characters
TruncTexts == UNION {[1 .. n -> TruncChars] : n \in 0 .. MaxTruncLen}

\* The widths: no room at all, then one, three, four and five cells, each exactly
\* and one pixel short
TruncWidths == {0, 5, 6, 17, 18, 23, 24, 29, 30}

\* A text and a width, nothing truncated yet
InitLayout ==
    /\ \E text \in TruncTexts, w \in TruncWidths :
          layout = [text |-> text, maxPixels |-> w, result |-> None, again |-> None]
    /\ DisplayIdle
    /\ MainIdle
    /\ EngineIdle
    /\ ScrollIdle
    /\ MetarIdle
    /\ TwinIdle
    /\ FeedIdle
    /\ TrackerIdle
    /\ LineIdle

\* t' = truncateToWidth(text, maxPixels)
Truncate ==
    /\ layout.result = None
    /\ layout' = [layout EXCEPT !.result = TruncateToWidth(layout.text, layout.maxPixels)]
    /\ UNCHANGED <<dcvars, mainvars, engvars, scrollvars, metarvars, twin, feed, tracker, line>>

\* truncateToWidth(t', maxPixels) for the result t' of the last truncation
TruncateAgain ==
    /\ layout.result # None
    /\ layout.again = None
    /\ layout' = [layout EXCEPT !.again = TruncateToWidth(layout.result, layout.maxPixels)]
    /\ UNCHANGED <<dcvars, mainvars, engvars, scrollvars, metarvars, twin, feed, tracker, line>>

NextLayout ==
    \/ Truncate
    \/ TruncateAgain

SpecLayout == InitLayout /\ [][NextLayout]_vars

(***************************************************************************)
(* SpecFeed: flight_logic.get_approaching_flights() on one response of the *)
(* flight feed.                                                            *)
(***************************************************************************)
\* An exception raised inside a try block
Raised == [type |-> "raised"]

\* The entries of a response: key, whether the value is a list, its length, and
\* its element 4 (the altitude), which JSON allows to be null
EntryVersion == [key |-> "version", list |-> FALSE, len |-> 0, numeric |-> TRUE, altitude |-> 4]
EntryStats == [key |-> "stats", list |-> FALSE, len |-> 0, numeric |-> TRUE, altitude |-> 0]
EntryShort == [key |-> "flight", list |-> TRUE, len |-> 12, numeric |-> TRUE, altitude |-> 1000]
EntryHigh ==
    [key |-> "flight", list |-> TRUE, len |-> 18, numeric |-> TRUE,
     altitude |-> MAX_APPROACH_ALTITUDE]
EntryThirteen ==
    [key |-> "flight", list |-> TRUE, len |-> 13, numeric |-> TRUE, altitude |-> 1000]
EntryLow ==
    [key |-> "flight", list |-> TRUE, len |-> 18, numeric |-> TRUE,
     altitude |-> MAX_APPROACH_ALTITUDE - 1]
EntryGround == [key |-> "flight", list |-> TRUE, len |-> 14, numeric |-> TRUE, altitude |-> 0]
EntryNullAltitude ==
    [key |-> "flight", list |-> TRUE, len |-> 18, numeric |-> FALSE, altitude |-> 0]

FeedEntries ==
    {EntryVersion, EntryStats, EntryShort, EntryHigh, EntryThirteen, EntryLow,
     EntryGround, EntryNullAltitude}

\* What requests.get and response.json() give: an exception of the request, a
\* status other than 200, a body that is not JSON, a JSON array, or a JSON object
\* of at most MaxEntries entries in their order
FeedResponses ==
    {[kind |-> k, status |-> 0, entries |-> <<>>] : k \in {"request_error", "not_json"}}
    \cup {[kind |-> "json", status |-> 503, entries |-> <<>>]}
    \cup {[kind |-> "array", status |-> 200, entries |-> <<>>]}
    \cup {[kind |-> "json", status |-> 200, entries |-> e] :
             e \in UNION {[1 .. n -> FeedEntries] : n \in 0 .. MaxEntries}}

\* Mutant of BelowApproachAltitude: an aircraft at the limit passes
BelowApproachAltitudeInclusive(flight_info) ==
    flight_info.altitude <= MAX_APPROACH_ALTITUDE

\* "altitude < config.MAX_APPROACH_ALTITUDE", for an altitude that is a number
BelowApproachAltitude(flight_info) ==
    flight_info.altitude < MAX_APPROACH_ALTITUDE

\* _parse_flight_data(flight_id, flight_info): the callsign is element 16, or
\* element 13 of a shorter list; an IndexError is caught and None returned
ParseFlightData(flight_id, flight_info) ==
    IF flight_info.len < 13
    THEN NoneData
    ELSE LET callsign_index == IF flight_info.len > 16 THEN 16 ELSE 13
         IN IF callsign_index >= flight_info.len
            THEN NoneData
            ELSE [type |-> "flight", flight_id |-> flight_id,
                  altitude |-> flight_info.altitude]

\* get_approaching_flights: "for flight_id, flight_info in data.items():" from
\* entry i on; the flight_id of an entry is its position, and comparing an altitude
\* that is not a number raises a TypeError
RECURSIVE ScanEntries(_, _)
ScanEntries(entries, i) ==
    IF i > Len(entries)
    THEN NoneData
    ELSE LET flight_info == entries[i]
         IN IF /\ flight_info.key \notin {"version", "full_count"}
               /\ flight_info.list
               /\ flight_info.len >= 13
            THEN IF ~flight_info.numeric
                 THEN Raised
                 ELSE IF /\ BelowApproachAltitude(flight_info)
                         /\ ParseFlightData(i, flight_info) # NoneData
                 THEN ParseFlightData(i, flight_info)
                 ELSE ScanEntries(entries, i + 1)
            ELSE ScanEntries(entries, i + 1)

\* The body of the try block of get_approaching_flights
FetchAndScan(response) ==
    IF response.kind = "request_error" THEN Raised
    ELSE IF response.status # 200 THEN NoneData
    ELSE IF response.kind = "not_json" THEN Raised
    ELSE IF response.kind = "array" THEN Raised
    ELSE ScanEntries(response.entries, 1)

\* get_approaching_flights() given the response: "except Exception: return None"
GetApproachingFlights(response) ==
    LET r == FetchAndScan(response)
    IN IF r = Raised THEN NoneData ELSE r

\* A response is on its way
InitFeed ==
    /\ \E response \in FeedResponses :
          feed = [response |-> response, called |-> FALSE, result |-> NoneData]
    /\ DisplayIdle
    /\ MainIdle
    /\ EngineIdle
    /\ ScrollIdle
    /\ MetarIdle
    /\ TwinIdle
    /\ LayoutIdle
    /\ TrackerIdle
    /\ LineIdle

\* flight_data = flight_logic.get_approaching_flights()
Poll ==
    /\ ~feed.called
    /\ feed' = [feed EXCEPT !.called = TRUE, !.result = GetApproachingFlights(feed.response)]
    /\ UNCHANGED <<dcvars, mainvars, engvars, scrollvars, metarvars, twin, layout, tracker, line>>

SpecFeed == InitFeed /\ [][Poll]_vars

(***************************************************************************)
(* SpecStats: record_flight called on one FlightStatsTracker by two        *)
(* threads (stats_tracker.py). The database is the pair of tables; a call  *)
(* works on its connection's view of them, which becomes the database when *)
(* the "with sqlite3.connect(...) as conn" block commits.                  *)
(***************************************************************************)
Threads == {1, 2}

\* The dates datetime.now() falls on
Dates == <<"2025-01-01", "2025-01-02">>

HelicopterTypes ==
    {<<"H","6","0">>, <<"E","C","3","5">>, <<"A","S","3","5">>, <<"B","K","1","7">>,
     <<"H","5","0","0">>, <<"R","2","2">>, <<"R","4","4">>, <<"R","6","6">>,
     <<"E","C","2","0">>, <<"E","C","4","5">>}

PrivatePrefixes ==
    {<<"N">>, <<"G","-">>, <<"C","-">>, <<"D","-">>, <<"F","-">>, <<"I","-">>,
     <<"P","H","-">>, <<"O","O","-">>, <<"H","B","-">>, <<"L","X","-">>,
     <<"V","P","-">>, <<"M","-">>}

JetTypes ==
    {<<"G","L","F">>, <<"C","L","6","0">>, <<"C","5","6","X">>, <<"C","6","8","0">>,
     <<"C","7","0","0">>, <<"C","L","3","0">>, <<"F","A","5","0">>, <<"H","2","5","B">>,
     <<"L","J","6","0">>, <<"C","R","J">>, <<"E","M","B">>}

\* str.startswith(prefix)
StartsWith(text, prefix) ==
    Len(text) >= Len(prefix) /\ SubSeq(text, 1, Len(prefix)) = prefix

\* _is_helicopter(aircraft_type)
IsHelicopter(aircraft_type) == Upper(aircraft_type) \in HelicopterTypes

\* _is_private_jet(callsign, aircraft_type)
IsPrivateJet(callsign, aircraft_type) ==
    IF callsign = <<>>
    THEN FALSE
    ELSE \/ \E prefix \in PrivatePrefixes : StartsWith(Upper(callsign), prefix)
         \/ \E jet_type \in JetTypes : Contains(Upper(aircraft_type), jet_type)

\* The flight records given to record_flight: an airliner, a helicopter with a
\* private registration and no origin, a regional jet, a flight without callsign
StatsFlights ==
    {[callsign |-> <<"U","A","L","1">>, aircraft_type |-> <<"B","7","3","8">>, origin |-> "ORD"],
     [callsign |-> <<"N","4","4","R">>, aircraft_type |-> <<"r","4","4">>, origin |-> ""],
     [callsign |-> <<"E","D","V","5">>, aircraft_type |-> <<"C","R","J","9">>, origin |-> "YYZ"],
     [callsign |-> <<>>, aircraft_type |-> <<>>, origin |-> "ORD"]}

\* "d[key] = d.get(key, 0) + 1" under "if key:"
CountIn(d, key, empty) ==
    IF key = empty
    THEN d
    ELSE [k \in DOMAIN d \cup {key} |-> IF k = key THEN Get(d, key, 0) + 1 ELSE d[k]]

\* _update_daily_stats: the daily_stats table after SELECT and INSERT OR REPLACE
\* (the airline of a record is always empty, so airlines_json stays {})
UpdateDailyStats(daily_stats, date_str, origin, aircraft_type, is_helicopter, is_private_jet) ==
    LET existing == date_str \in DOMAIN daily_stats
        total_planes == IF existing THEN daily_stats[date_str].total_planes + 1 ELSE 1
        helicopters == (IF existing THEN daily_stats[date_str].helicopters ELSE 0)
                       + (IF is_helicopter THEN 1 ELSE 0)
        private_jets == (IF existing THEN daily_stats[date_str].private_jets ELSE 0)
                        + (IF is_private_jet THEN 1 ELSE 0)
        origins == IF existing THEN daily_stats[date_str].origins ELSE <<>>
        aircraft_types == IF existing THEN daily_stats[date_str].aircraft_types ELSE <<>>
        row == [total_planes |-> total_planes,
                helicopters |-> helicopters,
                private_jets |-> private_jets,
                origins |-> CountIn(origins, origin, ""),
                aircraft_types |-> CountIn(aircraft_types, aircraft_type, <<>>)]
    IN [d \in DOMAIN daily_stats \cup {date_str} |->
          IF d = date_str THEN row ELSE daily_stats[d]]

\* A thread that is not in record_flight
NoCallInProgress ==
    [pc |-> "idle", flight_data |-> NoneData, today |-> "", is_helicopter |-> FALSE,
     is_private_jet |-> FALSE, flights |-> <<>>, daily_stats |-> <<>>]

\* FlightStatsTracker.__init__ on a new database
InitStats ==
    /\ tracker = [lock |-> 0, flights |-> <<>>, daily_stats |-> <<>>, day |-> 1,
                  started |-> 0, committed |-> 0,
                  call |-> [t \in Threads |-> NoCallInProgress]]
    /\ DisplayIdle
    /\ MainIdle
    /\ EngineIdle
    /\ ScrollIdle
    /\ MetarIdle
    /\ TwinIdle
    /\ LayoutIdle
    /\ FeedIdle
    /\ LineIdle

StatsUnchanged ==
    UNCHANGED <<dcvars, mainvars, engvars, scrollvars, metarvars, twin, layout, feed, line>>

\* A thread calls record_flight(flight_data) and waits at "with self.lock:"
RecordFlight(t) ==
    /\ tracker.call[t].pc = "idle"
    /\ tracker.started < MaxRecords
    /\ \E f \in StatsFlights :
          tracker' = [tracker EXCEPT !.started = @ + 1,
                                     !.call[t].pc = "waiting",
                                     !.call[t].flight_data = f]
    /\ StatsUnchanged

\* Mutant of AcquireLock: the body of record_flight is entered without the lock
\* being free
EnterWithoutLock(t) ==
    /\ tracker.call[t].pc = "waiting"
    /\ LET f == tracker.call[t].flight_data
       IN tracker' = [tracker EXCEPT
             !.lock = t,
             !.call[t].pc = "locked",
             !.call[t].today = Dates[tracker.day],
             !.call[t].is_helicopter = IsHelicopter(f.aircraft_type),
             !.call[t].is_private_jet = IsPrivateJet(f.callsign, f.aircraft_type)]
    /\ StatsUnchanged

\* "with self.lock:" is entered; today and the two flags are computed
AcquireLock(t) ==
    /\ tracker.call[t].pc = "waiting"
    /\ tracker.lock = 0
    /\ LET f == tracker.call[t].flight_data
       IN tracker' = [tracker EXCEPT
             !.lock = t,
             !.call[t].pc = "locked",
             !.call[t].today = Dates[tracker.day],
             !.call[t].is_helicopter = IsHelicopter(f.aircraft_type),
             !.call[t].is_private_jet = IsPrivateJet(f.callsign, f.aircraft_type)]
    /\ StatsUnchanged

\* "INSERT INTO flights ..." on a new connection: the row is in the connection's
\* view of the database
InsertFlight(t) ==
    /\ tracker.call[t].pc = "locked"
    /\ LET c == tracker.call[t]
           row == [date |-> c.today, origin |-> c.flight_data.origin,
                   aircraft_type |-> c.flight_data.aircraft_type,
                   is_helicopter |-> c.is_helicopter,
                   is_private_jet |-> c.is_private_jet]
       IN tracker' = [tracker EXCEPT
             !.call[t].pc = "inserted",
             !.call[t].flights = Append(tracker.flights, row),
             !.call[t].daily_stats = tracker.daily_stats]
    /\ StatsUnchanged

\* self._update_daily_stats(conn, today, ...)
UpdateStats(t) ==
    /\ tracker.call[t].pc = "inserted"
    /\ LET c == tracker.call[t]
       IN tracker' = [tracker EXCEPT
             !.call[t].pc = "updated",
             !.call[t].daily_stats =
                 UpdateDailyStats(c.daily_stats, c.today, c.flight_data.origin,
                                  c.flight_data.aircraft_type, c.is_helicopter,
                                  c.is_private_jet)]
    /\ StatsUnchanged

\* The "with ... as conn" block ends and commits, the lock is released
CommitAndRelease(t) ==
    /\ tracker.call[t].pc = "updated"
    /\ tracker' = [tracker EXCEPT
          !.flights = tracker.call[t].flights,
          !.daily_stats = tracker.call[t].daily_stats,
          !.committed = @ + 1,
          !.lock = 0,
          !.call[t] = NoCallInProgress]
    /\ StatsUnchanged

\* A statement raises (sqlite3.Error): the connection rolls back, the lock is
\* released and record_flight raises to its caller
RollbackAndRelease(t) ==
    /\ tracker.call[t].pc \in {"locked", "inserted", "updated"}
    /\ tracker' = [tracker EXCEPT !.lock = 0, !.call[t] = NoCallInProgress]
    /\ StatsUnchanged

\* datetime.now() passes midnight
Midnight ==
    /\ tracker.day < Len(Dates)
    /\ tracker' = [tracker EXCEPT !.day = @ + 1]
    /\ StatsUnchanged

NextStats ==
    \/ \E t \in Threads : RecordFlight(t)
    \/ \E t \in Threads : AcquireLock(t)
    \/ \E t \in Threads : InsertFlight(t)
    \/ \E t \in Threads : UpdateStats(t)
    \/ \E t \in Threads : CommitAndRelease(t)
    \/ \E t \in Threads : RollbackAndRelease(t)
    \/ Midnight

SpecStats == InitStats /\ [][NextStats]_vars

(***************************************************************************)
(* SpecLine: one call of draw_line, an iteration of its loop at a time     *)
(* (display_controller.py, draw_line).                                     *)
(***************************************************************************)
LineXs == (0 - LineMargin) .. (DISPLAY_WIDTH - 1 + LineMargin)

LineYs == (0 - LineMargin) .. (DISPLAY_HEIGHT - 1 + LineMargin)

LineColor == <<255, 255, 255>>

\* draw_line is called on a new controller: the locals before the loop
InitLine ==
    /\ \E x1 \in LineXs, y1 \in LineYs, x2 \in LineXs, y2 \in LineYs :
          line = [x1 |-> x1, y1 |-> y1, x2 |-> x2, y2 |-> y2,
                  dx |-> Abs(x2 - x1), dy |-> Abs(y2 - y1),
                  sx |-> IF x1 < x2 THEN 1 ELSE -1,
                  sy |-> IF y1 < y2 THEN 1 ELSE -1,
                  err |-> Abs(x2 - x1) - Abs(y2 - y1),
                  x |-> x1, y |-> y1, pc |-> "loop", iterations |-> 0,
                  S |-> InitDC(FALSE)]
    /\ DisplayIdle
    /\ MainIdle
    /\ EngineIdle
    /\ ScrollIdle
    /\ MetarIdle
    /\ TwinIdle
    /\ LayoutIdle
    /\ FeedIdle
    /\ TrackerIdle

LineUnchanged ==
    UNCHANGED <<dcvars, mainvars, engvars, scrollvars, metarvars, twin, layout, feed, tracker>>

\* Mutant of AtEndPoint: the loop stops in the column or in the row of the end
AtEndColumnOrRow(l) == l.x = l.x2 \/ l.y = l.y2

\* "if x == x2 and y == y2"
AtEndPoint(l) == l.x = l.x2 /\ l.y = l.y2

\* One iteration that ends in "break": the pixel is set and draw_line returns
LineBreak ==
    /\ line # <<>>
    /\ line.pc = "loop"
    /\ AtEndPoint(line)
    /\ line' = [line EXCEPT !.S = SetPixelBuffer(@, line.x, line.y, LineColor),
                            !.iterations = @ + 1,
                            !.pc = "returned"]
    /\ LineUnchanged

\* One iteration that goes round: the pixel is set, then x, y and err move
LineStep ==
    /\ line # <<>>
    /\ line.pc = "loop"
    /\ ~AtEndPoint(line)
    /\ LET e2 == 2 * line.err
           stepx == e2 > 0 - line.dy
           stepy == e2 < line.dx
       IN line' = [line EXCEPT
             !.S = SetPixelBuffer(@, line.x, line.y, LineColor),
             !.iterations = @ + 1,
             !.err = (IF stepx THEN @ - line.dy ELSE @) + (IF stepy THEN line.dx ELSE 0),
             !.x = IF stepx THEN @ + line.sx ELSE @,
             !.y = IF stepy THEN @ + line.sy ELSE @]
    /\ LineUnchanged

NextLine == LineBreak \/ LineStep

\* The interpreter keeps running the loop
SpecLine == InitLine /\ [][NextLine]_vars /\ WF_vars(NextLine)

(***************************************************************************)
(* Claims about the display controller.                                    *)
(***************************************************************************)
\* Operations that end with a swap
SwapOps == {"swap", "clear_display", "show_flight_info", "show_weather_info",
            "show_no_flights_message", "show_plane_celebration"}

\* Operations that draw into the back buffer or mark a region for update
MutatingOps == {"set_pixel", "draw_line", "draw_rectangle", "draw_text", "draw_icon",
                "draw_flag", "update_region", "clear"}

\* The coordinates of a set of SetPixel calls
WrittenCoords(writes) == {<<w[1], w[2]>> : w \in writes}

\* The frame with the "Incoming Plane" banner and nothing else
BannerFrame ==
    DrawTextToBuffer(InitDC(FALSE), IncomingPlaneText,
                     (DISPLAY_WIDTH - Len(IncomingPlaneText) * 6) \div 2,
                     (DISPLAY_HEIGHT - 8) \div 2, AmberColor).back

\* The frame with the plane sprite at column x and nothing else
SweepFrame(x) ==
    DrawPlaneToBuffer(InitDC(FALSE), PlanePattern, x, (DISPLAY_HEIGHT \div 2) - 5,
                      PurpleColor).back

\* The frame show_flight_info presents for a record on a fresh controller
FlightInfoFrame(flight_data) == ShowFlightInfo(InitDC(FALSE), flight_data).front

\* C4: show_plane_celebration presents, in this order and whatever was drawn or shown
\* before: the banner frame and a blank frame, twice; one sweep frame for each sprite
\* position from DISPLAY_WIDTH down to -9; the flight-info frame of the record passed
\* in. When it returns the front buffer is that flight-info frame.
C4_CelebrationOrder ==
    op = "show_plane_celebration" =>
       /\ Len(presented) = 4 + (DISPLAY_WIDTH + 10) + 1
       /\ presented[1] = BannerFrame /\ presented[2] = BlankBuffer
       /\ presented[3] = BannerFrame /\ presented[4] = BlankBuffer
       /\ \A i \in 1..(DISPLAY_WIDTH + 10) :
             presented[4 + i] = SweepFrame(DISPLAY_WIDTH - i + 1)
       /\ presented[Len(presented)] = FlightInfoFrame(arg)
       /\ front_buffer = FlightInfoFrame(arg)

\* C4 witness: a celebration run on a panel after other operations, with a visible
\* banner, a visible sprite and a visible flight-info frame
C4_Witness ==
    /\ op = "show_plane_celebration" /\ hardware_ready /\ nops >= 2
    /\ presented[1] # BlankBuffer
    /\ presented[4 + DISPLAY_WIDTH] # BlankBuffer
    /\ front_buffer # BlankBuffer
    /\ front_buffer # presented[1]

\* C5: after _clear_buffer() every back-buffer pixel is (0,0,0) and every coordinate
\* of the display is dirty; after clear_display() (the clear and the swap that
\* follows it) every displayed pixel is (0,0,0), and with a panel the swap has
\* written (0,0,0) to every coordinate of the display, whatever was shown before.
C5_ClearMarksAllDirty ==
    /\ op = "clear" => back_buffer = BlankBuffer /\ dirty_pixels = Coords
    /\ op = "clear_display" =>
          /\ front_buffer = BlankBuffer
          /\ hardware_ready =>
                /\ hw_writes = {<<c[1], c[2], Black>> : c \in Coords}
                /\ matrix = BlankBuffer

\* C5 witness: clear_display() on a panel that showed something
C5_Witness ==
    op = "clear_display" /\ hardware_ready /\ hw_before # BlankBuffer

\* C6: every coordinate written into the back buffer since the last swap is in the
\* dirty set, and with a panel the next swap sends it to the panel; right after a
\* swap the dirty set is empty, and it becomes non-empty again only by an operation
\* that draws, clears or marks a region (never by a swap or a panel update).
C6_DirtyTracking ==
    /\ [](written \subseteq dirty_pixels)
    /\ [](op \in SwapOps => dirty_pixels = {})
    /\ [][op' = "swap" /\ hardware_ready => written \subseteq WrittenCoords(hw_writes')]_vars
    /\ [][dirty_pixels = {} /\ dirty_pixels' # {} => op' \in MutatingOps]_vars

\* C6 witness: a swap with a panel has presented a dirty set that is neither empty
\* nor the whole display
C6_Witness ==
    /\ op = "swap" /\ hardware_ready
    /\ hw_writes # {} /\ WrittenCoords(hw_writes) # Coords
    /\ dirty_pixels = {}

\* C7: a swap sends to the panel exactly the coordinates of the dirty set, each with
\* its back-buffer colour, and leaves the panel's other pixels alone; the front and
\* the back buffer exchange roles; the dirty set and the dirty-region list are empty
\* afterwards. Without a panel nothing is sent.
C7_SwapWritesDirtySet ==
    [][op' = "swap" =>
         /\ hw_writes' = IF hardware_ready
                         THEN {<<c[1], c[2], back_buffer[c[2]][c[1]]>> : c \in dirty_pixels}
                         ELSE {}
         /\ \A c \in Coords :
               matrix'[c[2]][c[1]] = IF hardware_ready /\ c \in dirty_pixels
                                     THEN back_buffer[c[2]][c[1]]
                                     ELSE matrix[c[2]][c[1]]
         /\ front_buffer' = back_buffer
         /\ back_buffer' = front_buffer
         /\ dirty_pixels' = {}
         /\ dirty_regions' = <<>>]_vars

\* C7 witness: a swap with a panel that sent some but not all coordinates, with
\* front and back buffer different
C7_Witness ==
    /\ op = "swap" /\ hardware_ready
    /\ hw_writes # {} /\ WrittenCoords(hw_writes) # Coords
    /\ front_buffer # back_buffer

\* C8 (as claimed): after every swap the panel shows, at every coordinate, the
\* colour of the front buffer.
C8_FrontIsDisplayed ==
    hardware_ready /\ op \in SwapOps => matrix = front_buffer

\* C9 (as claimed): a swap sends no pixel whose new colour equals the colour the
\* panel already shows.
C9_OnlyChangedPixelsWritten ==
    op \in SwapOps => \A w \in hw_writes : hw_before[w[2]][w[1]] # w[3]

\* The sprite positions of the sweep of the last operation, in the order drawn
SweepPositions ==
    LET planes == SelectSeq(calls, LAMBDA c : c[1] = "plane")
    IN [i \in DOMAIN planes |-> planes[i][2]]

\* C16 (as claimed): the sweep of the celebration presents one frame per sprite
\* position, the position one less from each frame to the next; its first frame
\* (sprite off the right edge) and its last frame (sprite off the left edge) show
\* no sprite pixel.
C16_SweepOffBothEdges ==
    op = "show_plane_celebration" =>
       /\ Len(presented) = 4 + Len(SweepPositions) + 1
       /\ \A i \in DOMAIN SweepPositions :
             /\ presented[4 + i] = SweepFrame(SweepPositions[i])
             /\ i > 1 => SweepPositions[i] = SweepPositions[i - 1] - 1
       /\ presented[5] = BlankBuffer
       /\ presented[4 + Len(SweepPositions)] = BlankBuffer

\* The text draw calls and the flag draw calls of the last operation on the line at
\* height y: <<"text", text, x, y, colour>> and <<"flag", x, y>>
TextsAt(y) == SelectSeq(calls, LAMBDA c : c[1] = "text" /\ c[4] = y)
FlagsAt(y) == SelectSeq(calls, LAMBDA c : c[1] = "flag" /\ c[3] = y)

\* A text is drawn on the line at height y, with a flag right in front of it
\* (13 pixels of flag and 2 of spacing) or without one, and nothing else
LineShows(text, y, color, withFlag) ==
    /\ Len(TextsAt(y)) = 1
    /\ TextsAt(y)[1][2] = text /\ TextsAt(y)[1][5] = color
    /\ IF withFlag
       THEN /\ Len(FlagsAt(y)) = 1
            /\ TextsAt(y)[1][3] = FlagsAt(y)[1][2] + 13 + 2
       ELSE FlagsAt(y) = <<>>

\* C18: show_flight_info draws exactly three lines, or two for a record without an
\* aircraft type: the aircraft type at y = 2, exactly the callsign at y = 12 and
\* the route at y = 22. The Canada flag is drawn in front of the route exactly if
\* the origin is in CANADIAN_AIRPORTS; a record with another origin and an aircraft
\* type without "Canadair" draws no flag at all.
C18_FlightRowMapping ==
    op = "show_flight_info" =>
       LET aircraft_type == Get(arg, "aircraft_type", <<>>)
           canadian_origin == Get(arg, "origin", "") \in CANADIAN_AIRPORTS
           canadair == Contains(aircraft_type, <<"C","a","n","a","d","a","i","r">>)
       IN /\ IF aircraft_type = <<>>
             THEN TextsAt(2) = <<>> /\ FlagsAt(2) = <<>>
             ELSE LineShows(aircraft_type, 2, PurpleColor, canadair)
          /\ LineShows(arg.callsign, 12, OrangeColor, FALSE)
          /\ LineShows(Get(arg, "route", <<>>), 22, LightBlueColor, canadian_origin)
          /\ Len(calls) = Len(TextsAt(2)) + Len(FlagsAt(2)) + 1 + 1 + Len(FlagsAt(22))
          /\ (~canadian_origin /\ ~canadair) =>
                \A i \in DOMAIN calls : calls[i][1] # "flag"

\* C18 witness: a record with origin YYZ shown after another screen, the flag in
\* front of its route and nowhere else
C18_Witness ==
    /\ op = "show_flight_info" /\ nops >= 2
    /\ arg = FlightYYZ
    /\ Len(FlagsAt(22)) = 1 /\ FlagsAt(2) = <<>>
    /\ TextsAt(12)[1][2] = <<"E","D","V","5">>

\* C19 (as claimed): the Canada flag is drawn in front of the aircraft type exactly
\* if the aircraft type contains "Canadair" or "Bombardier".
C19_FlagForCanadianAircraft ==
    op = "show_flight_info" =>
       LET aircraft_type == Get(arg, "aircraft_type", <<>>)
       IN FlagsAt(2) # <<>> <=>
             \/ Contains(aircraft_type, <<"C","a","n","a","d","a","i","r">>)
             \/ Contains(aircraft_type, <<"B","o","m","b","a","r","d","i","e","r">>)

\* C20 (as claimed): a record with is_private_jet true is drawn differently from the
\* same record with is_private_jet false: other draw calls or another frame.
C20_PrivateJetDistinguished ==
    (op = "show_flight_info" /\ Get(arg, "is_private_jet", FALSE)) =>
       LET other == ShowFlightInfo(InitDC(FALSE), [arg EXCEPT !.is_private_jet = FALSE])
       IN calls # other.calls \/ front_buffer # other.front

\* text ends with suffix
EndsWith(text, suffix) ==
    /\ Len(text) >= Len(suffix)
    /\ SubSeq(text, Len(text) - Len(suffix) + 1, Len(text)) = suffix

\* C21 (as claimed): the no-traffic screen shows three fixed texts: "<runway> ACTIVE"
\* on row 0, "No Approach" on row 1 and "Traffic" on row 2, whatever was shown
\* before and whenever it is shown.
C21_NoTrafficRows ==
    op = "show_no_flights_message" =>
       /\ Len(TextsAt(2)) = 1 /\ Len(TextsAt(12)) = 1 /\ Len(TextsAt(22)) = 1
       /\ EndsWith(TextsAt(2)[1][2], <<" ","A","C","T","I","V","E">>)
       /\ TextsAt(12)[1][2] = <<"N","o"," ","A","p","p","r","o","a","c","h">>
       /\ TextsAt(22)[1][2] = <<"T","r","a","f","f","i","c">>

\* The text draw calls of the last operation
TextCalls == SelectSeq(calls, LAMBDA c : c[1] = "text")

\* Character k (from 1) of a text drawn at column x lies inside the display: the 5
\* columns of its glyph cell
CharVisible(x, k) == 0 <= x + 6 * (k - 1) /\ x + 6 * (k - 1) + 5 <= DISPLAY_WIDTH

\* C22 (as claimed): what show_flight_info draws on a row fits the display: a text
\* that fits is drawn whole, a wider text goes through the scroll animator and is
\* drawn as a slice that fits, so that every character drawn is visible. (The
\* screen of a record is the same on every call, so a character that is cut off in
\* one frame is visible at no time.)
C22_WideRowsScroll ==
    op = "show_flight_info" =>
       \A i \in DOMAIN TextCalls :
          /\ MeasureWidth(TextCalls[i][2]) <= DISPLAY_WIDTH
          /\ \A k \in DOMAIN TextCalls[i][2] : CharVisible(TextCalls[i][3], k)

TempPlaceholder == <<"T","e","m","p",":"," ","N","/","A">>

\* The METAR show_weather_info reads from the record of the last operation
ArgMetar ==
    Get(arg, "metar",
        <<"W","e","a","t","h","e","r"," ","u","n","a","v","a","i","l","a","b","l","e">>)

\* C23: show_weather_info presents a complete frame for every weather record: the
\* title at y = 2, one weather icon at y = 12 and one text at y = 16, then one swap.
\* The text is the temperature, or "Temp: N/A" if the METAR has none, followed by a
\* blank and the wind exactly if the METAR has a wind group: each of the two
\* degrades whether or not the other is there. A record without a METAR, with an
\* empty one or with the fallback "Weather unavailable" shows "Temp: N/A" alone.
C23_WeatherFieldsDegrade ==
    op = "show_weather_info" =>
       LET temperature == ExtractTemperatureFromMetar(ArgMetar)
           wind_info == ExtractWindFromMetar(ArgMetar)
           temp_part == IF temperature = None THEN TempPlaceholder ELSE temperature
           missing == \/ "metar" \notin DOMAIN arg
                      \/ ArgMetar \in {<<>>, None}
                      \/ ArgMetar = WeatherFallback.metar
       IN /\ Len(calls) = 3 /\ Len(presented) = 1 /\ presented[1] = front_buffer
          /\ calls[1] = <<"text", <<"W","e","a","t","h","e","r"," ","a","t"," ","L","G","A",":">>,
                           1, 2, ROW_ONE_COLOR>>
          /\ calls[2][1] = "icon" /\ calls[2][2] \in {"rainy", "sunny", "cloudy"}
          /\ calls[2][3] = 1 /\ calls[2][4] = 12
          /\ calls[3][1] = "text" /\ calls[3][3] = 24 /\ calls[3][4] = 16
          /\ calls[3][2] = IF wind_info = None THEN temp_part
                            ELSE temp_part \o <<" ">> \o wind_info
          /\ missing => calls[3][2] = TempPlaceholder /\ calls[2][2] = "cloudy"
          /\ arg = WeatherWindOnly =>
                calls[3][2] = TempPlaceholder \o <<" ","1","8","0","@","6","k","t">>
          /\ arg = WeatherTempOnly => calls[3][2] = <<"2","9","DEG","C">>

\* C23 witness: after a complete weather screen, a record whose METAR has a wind
\* group and no temperature is shown with the placeholder and the wind
C23_Witness ==
    /\ op = "show_weather_info" /\ nops >= 2
    /\ arg = WeatherWindOnly
    /\ calls[3][2] = TempPlaceholder \o <<" ","1","8","0","@","6","k","t">>
    /\ front_buffer # BlankBuffer

\* The pixels of the glyph of character ch with its cell at column cx, row cy: none
\* for a character without a glyph
CellPixels(ch, cx, cy) ==
    {<<cx + rc[2], cy + rc[1]>> :
        rc \in {rc \in Range(8) \X Range(5) :
                  /\ UpperChar(ch) \in GlyphChars
                  /\ BitSet(Patterns[UpperChar(ch)][rc[1] + 1], 4 - rc[2])}}

\* C27: drawing a text at (x, y) sets, in the back buffer, exactly the glyph pixels
\* of each character k (from 0) with the character's cell at column x + 6k, whether
\* or not the characters before it have a glyph, and leaves every other pixel as it
\* was; in the cell of a character without a glyph no pixel changes.
C27_FixedAdvance ==
    [][op' = "draw_text" =>
         LET c == calls'[1]
             text == c[2]
             x == c[3]
             y == c[4]
         IN /\ Len(calls') = 1 /\ c[1] = "text"
            /\ \A lit \in {UNION {CellPixels(text[k], x + 6 * (k - 1), y) :
                                     k \in DOMAIN text}} :
                  \A p \in Coords :
                     back_buffer'[p[2]][p[1]] =
                        IF p \in lit THEN c[5] ELSE back_buffer[p[2]][p[1]]
            /\ \A k \in DOMAIN text :
                  UpperChar(text[k]) \notin GlyphChars =>
                     \A p \in Coords :
                        (x + 6 * (k - 1) <= p[1] /\ p[1] < x + 6 * k) =>
                           back_buffer'[p[2]][p[1]] = back_buffer[p[2]][p[1]]]_vars

\* C27 witness: the text "?T" drawn at column -5 after a rectangle: the cell of "?"
\* is left of the display, the bar of the "T" is on columns 1 to 5 of row 0 and its
\* stem on column 3, and the rectangle is still there
C27_Witness ==
    /\ op = "draw_text" /\ nops >= 2
    /\ calls[1][2] = <<"?", "T">> /\ calls[1][3] = -5
    /\ \A x \in 1 .. 5 : back_buffer[0][x] = ROW_ONE_COLOR
    /\ back_buffer[0][0] = Black
    /\ back_buffer[1][3] = ROW_ONE_COLOR /\ back_buffer[1][1] = Black
    /\ back_buffer[DISPLAY_HEIGHT - 1][DISPLAY_WIDTH - 1] = <<255, 0, 0>>

\* C26: after the same operations the controller without a panel has the front
\* buffer, the back buffer, the dirty set and the dirty-region list of the
\* controller with the panel, and its last operation presented the same frames; the
\* one difference is that nothing was ever sent to a panel.
C26_HeadlessEquivalence ==
    twin # <<>> =>
       /\ twin.front = front_buffer
       /\ twin.back = back_buffer
       /\ twin.dirty = dirty_pixels
       /\ twin.regions = dirty_regions
       /\ twin.presented = presented
       /\ twin.calls = calls
       /\ ~twin.ready /\ twin.hw = BlankBuffer /\ twin.hw_writes = {}

\* C26 witness: after a swap that sent pixels to the panel, something was drawn: both
\* controllers have a non-empty dirty set, front and back buffer differ, and only
\* the panel of the first shows anything
C26_Witness ==
    /\ twin # <<>> /\ nops >= 2
    /\ matrix # BlankBuffer /\ twin.hw = BlankBuffer
    /\ twin.dirty # {} /\ twin.dirty # Coords
    /\ twin.front # BlankBuffer /\ twin.front # twin.back

(***************************************************************************)
(* Claims about the METAR parsers.                                         *)
(***************************************************************************)
\* Number of digits that end at position j of a text, read backwards
RECURSIVE DigitsBefore(_, _)
DigitsBefore(text, j) ==
    IF IsDigitAt(text, j) THEN 1 + DigitsBefore(text, j - 1) ELSE 0

\* The text holds a match of the temperature pattern (\d+)/(\d+): a slash between
\* two digits
HasTemperatureGroup(text) ==
    \E i \in 1 .. Len(text) :
       IsCharAt(text, i, "/") /\ IsDigitAt(text, i - 1) /\ IsDigitAt(text, i + 1)

\* The text holds a match of the wind pattern (\d{3})(\d{2,3})(?:G(\d{2,3}))?KT:
\* "KT" right after five or more digits, or right after "G" and two or three digits
\* that follow five or more digits
HasWindGroup(text) ==
    \E j \in 1 .. Len(text) :
       /\ IsCharAt(text, j, "K") /\ IsCharAt(text, j + 1, "T")
       /\ LET e == DigitsBefore(text, j - 1)
          IN \/ e >= 5
             \/ /\ e \in {2, 3}
                /\ IsCharAt(text, j - 1 - e, "G")
                /\ DigitsBefore(text, j - 2 - e) >= 5

\* C24: whatever METAR the parsers are given, they return: the condition is one of
\* rainy, sunny and cloudy; for an absent or an empty METAR it is cloudy and
\* temperature and wind are None; for a text without a temperature group the
\* temperature is None, for a text without a wind group the wind is None.
C24_ParsersResilient ==
    metar_parsed # NoneData =>
       /\ metar_parsed.condition \in {"rainy", "sunny", "cloudy"}
       /\ IF metar_text \in {None, <<>>}
          THEN /\ metar_parsed.condition = "cloudy"
               /\ metar_parsed.temperature = None
               /\ metar_parsed.wind = None
          ELSE /\ ~HasTemperatureGroup(metar_text) => metar_parsed.temperature = None
               /\ ~HasWindGroup(metar_text) => metar_parsed.wind = None

\* C24 witness: the text "06KT/06", with digits, "KT" and a slash but neither a wind
\* group nor a temperature group, has been parsed
C24_Witness ==
    /\ metar_parsed # NoneData
    /\ metar_text = <<"0","6","K","T","/","0","6">>
    /\ metar_parsed.temperature = None /\ metar_parsed.wind = None
    /\ metar_parsed.condition = "cloudy"

(***************************************************************************)
(* Claims about the main loop.                                             *)
(***************************************************************************)
\* A poll result that is a flight record
IsFlightRecord(d) == Truthy(d) /\ d # PollError

\* C3 (as claimed): a poll runs the celebration exactly if it reports a flight that
\* is not the flight being shown: the first poll that reports a flight runs it, a
\* poll that reports the flight already shown does not.
C3_CelebrationPerNewFlight ==
    [][op' = "poll" =>
         (celebrations' # celebrations <=>
             /\ IsFlightRecord(poll_result')
             /\ \/ ~Truthy(current_plane_data)
                \/ current_plane_data.flight_id # poll_result'.flight_id)]_vars

\* C3 (amended): the celebration runs exactly on the polls that report a flight while
\* no flight is being shown (plane_detected false), once, for the flight reported; a
\* poll that reports a flight while one is shown never runs it, whether it reports
\* the same flight or another one; nothing but a poll runs it.
C3_CelebrationOnDetectionEdge ==
    [][/\ op' = "poll" =>
            celebrations' = IF IsFlightRecord(poll_result') /\ ~plane_detected
                            THEN Append(celebrations, poll_result'.flight_id)
                            ELSE celebrations
       /\ op' # "poll" => celebrations' = celebrations]_vars

\* C3 witness: a second or later poll has reported the flight that is being shown
\* and was celebrated once, and no celebration ran again
C3_Witness ==
    /\ op = "poll" /\ npolls >= 2
    /\ IsFlightRecord(poll_result) /\ plane_detected
    /\ current_plane_data.flight_id = poll_result.flight_id
    /\ celebrations = <<poll_result.flight_id>>
    /\ presented = <<>>

\* C17: at most one call of show_plane_celebration is in progress at any time. From
\* its start to its return the loop stays in _check_for_planes: no second
\* celebration starts, no poll is made and nothing else is rendered; the one thing
\* that can happen is the signal handler, which only clears self.running.
C17_OneCelebrationAtATime ==
    /\ [](celebrating \in {0, 1})
    /\ [](celebrating = 1 <=> pc = "celebration")
    /\ [][celebrating = 1 =>
            /\ op' \in {"show_plane_celebration", "signal"}
            /\ celebrations' = celebrations
            /\ npolls' = npolls
            /\ op' = "signal" =>
                  /\ celebrating' = 1
                  /\ front_buffer' = front_buffer /\ back_buffer' = back_buffer
                  /\ matrix' = matrix
            /\ op' = "show_plane_celebration" => celebrating' = 0]_vars

\* C17 witness: a celebration started by the second or a later poll is in progress
\* and a signal has arrived meanwhile
C17_Witness ==
    /\ celebrating = 1 /\ op = "signal" /\ ~running
    /\ npolls >= 2 /\ Len(celebrations) = 1

\* An iteration of the loop has displayed its frame: the loop is at, or back from,
\* time.sleep
IterationDisplayed == pc = "sleep" \/ (pc = "loop" /\ iterations >= 1)

\* C25: a failed fetch never ends the loop: self.running changes only in the signal
\* handler and the loop is left only with self.running false. A poll that returns
\* nothing ends flight mode. At the end of every iteration the displayed frame is
\* not blank (with a panel, the panel is not blank), and with no flight shown and
\* the weather fetch failed it is the weather screen of the fallback record: the
\* title, the cloudy icon and "Temp: N/A".
C25_SourcesDownStillDisplays ==
    /\ [][running' # running => op' = "signal"]_vars
    /\ [][pc' = "done" => ~running]_vars
    /\ [][op' = "poll" /\ poll_result' = NoneData => ~plane_detected']_vars
    /\ [](IterationDisplayed =>
            /\ front_buffer # BlankBuffer
            /\ hardware_ready => matrix # BlankBuffer
            /\ (~plane_detected /\ weather_data = WeatherUnavailable) =>
                  /\ arg = WeatherUnavailable
                  /\ front_buffer = ShowWeatherInfo(InitDC(FALSE), WeatherUnavailable).front
                  /\ Len(calls) = 3
                  /\ calls[1][2] = <<"W","e","a","t","h","e","r"," ","a","t"," ","L","G","A",":">>
                  /\ calls[2] = <<"icon", "cloudy", 1, 12>>
                  /\ calls[3][2] = TempPlaceholder)

\* C25 witness: the second iteration or a later one has ended with two polls made,
\* none of which ever reported a flight and the last of which raised, the weather
\* fetch failed, the loop still running and the panel showing the fallback screen
C25_Witness ==
    /\ pc = "sleep" /\ running /\ iterations >= 2 /\ npolls >= 2
    /\ poll_result = PollError /\ celebrations = <<>>
    /\ weather_data = WeatherUnavailable
    /\ hardware_ready /\ matrix # BlankBuffer
    /\ calls[3][2] = TempPlaceholder

\* C29: every iteration renders the flight-info screen of the flight record most
\* recently reported by a poll if the last poll that returned reported a flight,
\* and the weather screen otherwise (a poll that raises reports nothing and
\* changes nothing); so from a poll that reports no flight until a poll that
\* reports one, no iteration renders flight info.
C29_ModeFollowsLatestPoll ==
    /\ [][pc = "display" /\ pc' = "sleep" =>
            IF IsFlightRecord(last_reported)
            THEN /\ op' = "show_flight_info"
                 /\ arg' = WithType(last_reported)
                 /\ front_buffer' =
                       ShowFlightInfo(InitDC(FALSE), WithType(last_reported)).front
            ELSE /\ op' = "show_weather_info"
                 /\ arg' = weather_data'
                 /\ front_buffer' = ShowWeatherInfo(InitDC(FALSE), weather_data').front]_vars
    /\ [][last_reported' = NoneData => op' # "show_flight_info"]_vars
    /\ [][last_reported' # last_reported => op' = "poll" /\ poll_result' = last_reported']_vars

\* C29 witness: a flight was detected and celebrated, a later poll reported another
\* flight while the first was shown, and the iteration rendered the flight info of
\* the flight reported last
C29_Witness ==
    /\ pc = "sleep" /\ op = "show_flight_info"
    /\ npolls >= 2
    /\ celebrations = <<FlightUAL.flight_id>>
    /\ last_reported = FlightYYZ
    /\ arg = WithType(FlightYYZ)

\* C30: wherever the loop decides what to display, plane_detected is true exactly
\* if current_plane_data is a flight record (not None), whatever the polls before
\* returned or raised.
C30_DetectedIffFlightRecord ==
    pc = "display" =>
       /\ plane_detected <=> IsFlightRecord(current_plane_data)
       /\ plane_detected => current_plane_data.type = "flight"

\* C30 witness: the loop is about to decide what to display after a poll that
\* raised while a flight detected by an earlier poll is shown
C30_Witness ==
    /\ pc = "display"
    /\ npolls >= 2 /\ poll_result = PollError
    /\ plane_detected /\ IsFlightRecord(current_plane_data)
    /\ Len(celebrations) = 1

(***************************************************************************)
(* Claims about shutdown and pacing of the main loop.                      *)
(***************************************************************************)
\* C34: once the signal handler has cleared self.running it stays cleared and no
\* further iteration starts: the iteration in progress (a celebration in progress
\* included) is finished and the loop left. However the loop ends, by the signal
\* or by an exception, it ends with clear_display: the frame is all black, on the
\* panel too, and no display operation follows.
C34_ShutdownClearsDisplay ==
    /\ [][~running => ~running' /\ iterations' = iterations]_vars
    /\ [][~running /\ celebrating = 1 /\ op' # "signal" =>
            op' = "show_plane_celebration" /\ pc' = "weather"]_vars
    /\ [][pc # "done" /\ pc' = "done" =>
            /\ op' = "cleanup"
            /\ presented' = <<BlankBuffer>>
            /\ front_buffer' = BlankBuffer
            /\ hardware_ready => matrix' = BlankBuffer]_vars
    /\ [](pc = "done" => op = "cleanup" /\ front_buffer = BlankBuffer)
    /\ [][pc = "done" => UNCHANGED vars]_vars

\* C34 witness: the loop was ended by a signal after an iteration that displayed a
\* detected flight; the flight screen is in the back buffer and the frame on
\* display and the panel are black
C34_Witness ==
    /\ pc = "done" /\ ~running /\ op = "cleanup"
    /\ iterations >= 1 /\ plane_detected
    /\ hardware_ready /\ matrix = BlankBuffer /\ front_buffer = BlankBuffer
    /\ back_buffer # BlankBuffer


\* Position of the steps of an iteration in run()
StageRank(p) ==
    CASE p = "poll" -> 1
      [] p = "celebration" -> 2
      [] p = "weather" -> 3
      [] p = "display" -> 4
      [] p = "sleep" -> 5
      [] OTHER -> 0

\* C35: a flight poll is made only in an iteration whose timestamp is at least
\* FLIGHT_POLL_INTERVAL after last_plane_check, which is the timestamp of the
\* iteration of the poll before; a weather refresh only at least
\* WEATHER_REFRESH_INTERVAL after the timestamp of the refresh before. The first
\* iteration does both, and within an iteration the poll (with its celebration)
\* comes before the refresh and the refresh before the render.
C35_PollPacing ==
    /\ [][op' = "poll" =>
            /\ pc = "poll"
            /\ current_time - last_plane_check >= FLIGHT_POLL_INTERVAL]_vars
    /\ [][last_plane_check' # last_plane_check =>
            /\ op' \in {"poll", "show_plane_celebration"}
            /\ last_plane_check' = current_time]_vars
    /\ [][op' = "poll" /\ pc' # "celebration" => last_plane_check' = current_time]_vars
    /\ [][op' = "show_plane_celebration" => last_plane_check' = current_time]_vars
    /\ [][op' = "update_weather" =>
            /\ pc = "weather"
            /\ current_time - last_weather_update >= WEATHER_REFRESH_INTERVAL
            /\ last_weather_update' = current_time]_vars
    /\ [][last_weather_update' # last_weather_update => op' = "update_weather"]_vars
    /\ [][iterations = 1 => op' \notin {"skip_poll", "skip_weather"}]_vars
    /\ [][op' \in {"show_flight_info", "show_weather_info"} => pc = "display"]_vars
    /\ [][StageRank(pc) > 0 /\ StageRank(pc') > 0 /\ pc' # pc =>
            StageRank(pc') > StageRank(pc)]_vars
    /\ [][current_time' # current_time => pc = "loop" /\ current_time' = now]_vars

\* C35 witness: the third iteration has made the second poll, the second iteration
\* having come too early for one, and no weather refresh was due since the first
C35_Witness ==
    /\ op = "poll" /\ pc = "weather"
    /\ iterations = 3 /\ npolls = 2
    /\ last_plane_check = current_time
    /\ current_time = StartTime + 1 + FLIGHT_POLL_INTERVAL
    /\ last_weather_update = StartTime

(***************************************************************************)
(* Claims about the display engine.                                        *)
(***************************************************************************)
\* Number of dwell windows the query times reach into
MaxWindow == (2 * LINE1_DWELL) \div LINE2_DWELL + 1

\* Times t1 and t2 lie in the same dwell window [k * dwell, (k + 1) * dwell)
SameWindow(t1, t2, dwell) ==
    \E k \in 0..MaxWindow :
       /\ k * dwell <= t1 /\ t1 < (k + 1) * dwell
       /\ k * dwell <= t2 /\ t2 < (k + 1) * dwell

\* compute_display_state was called in weather mode
WeatherMode(call) == call # NoCall /\ ~Truthy(call.app_data.flight_data)

\* C1: two queries of the alternator at times inside the same dwell window return
\* the same candidate, and so does row 0 of compute_display_state in weather mode,
\* whatever queries were made between the two.
C1_AlternationStable ==
    reference # NoCall /\ last # NoCall =>
       /\ SameWindow(reference.t, last.t, alt_dwell) => last.alone = reference.alone
       /\ (/\ SameWindow(reference.t, last.t, LINE1_DWELL)
           /\ WeatherMode(reference) /\ WeatherMode(last))
             => last.rows[1] = reference.rows[1]

\* C1 witness: queries at 5.00 s and at 6.95 s with a 5 s dwell, others in between
C1_Witness ==
    /\ reference # NoCall /\ reference.t = LINE1_DWELL
    /\ last.t = 7 * UnitsPerSecond - 1
    /\ alt_dwell = LINE1_DWELL
    /\ WeatherMode(reference) /\ WeatherMode(last)
    /\ ncalls >= 3
    /\ last.alone = "B" /\ last.rows[1].text = "WEATHER AT KLGA:"

\* C2: the alternator returns the candidate of the window [k * dwell, (k + 1) * dwell)
\* the time lies in, candidate k mod N; at a time equal to a boundary that is the new
\* window. With candidates [A, B] and a 5 s dwell: A at every time before 5.00 s,
\* B at 5.00 s, A at 10.00 s.
C2_BoundaryBelongsToNewWindow ==
    last # NoCall =>
       /\ \E k \in 0..MaxWindow :
             /\ k * alt_dwell <= last.t /\ last.t < (k + 1) * alt_dwell
             /\ last.alone = alt_candidates[(k % Len(alt_candidates)) + 1]
       /\ (alt_candidates = <<"A", "B">> /\ alt_dwell = LINE1_DWELL) =>
             /\ last.t < LINE1_DWELL => last.alone = "A"
             /\ last.t = LINE1_DWELL => last.alone = "B"
             /\ last.t = 2 * LINE1_DWELL => last.alone = "A"

\* C2 witness: a query at exactly 5.00 s with candidates [A, B] and a 5 s dwell
C2_Witness ==
    /\ last # NoCall /\ last.t = alt_dwell
    /\ alt_candidates = <<"A", "B">> /\ alt_dwell = LINE1_DWELL
    /\ last.alone = "B"

Scrolls == scroll_calls > 0 /\ MeasureWidth(scroll_text) > scroll_width

\* Number of characters that fit the row, and the offset of the last slice
Fit == scroll_width \div 6
MaxOffset == Len(scroll_text) - Fit

\* The slice of the row's text at an offset
SliceAt(offset) == SubSeq(scroll_text, offset + 1, offset + Fit)

\* Duration of the Scrolling phase and of a whole cycle
ScrollDuration == MaxOffset * SCROLL_TICK
CycleLength == 2 * SCROLL_PAUSE + ScrollDuration

\* Time since the first render of the text, the start of the cycle that time lies
\* in, and the time into that cycle
Elapsed == scroll_now - scroll_first
CycleStart ==
    scroll_first + (IF scroll_loop THEN (Elapsed \div CycleLength) * CycleLength ELSE 0)
CycleTime == scroll_now - CycleStart

\* The schedule of a cycle: the phase a time into the cycle belongs to, and the time
\* into the cycle that phase starts at
SchedulePhase ==
    IF CycleTime < SCROLL_PAUSE THEN "PauseStart"
    ELSE IF CycleTime < SCROLL_PAUSE + ScrollDuration THEN "Scrolling"
    ELSE IF CycleTime < CycleLength THEN "PauseEnd"
    ELSE "Complete"
SchedulePhaseStart ==
    CASE SchedulePhase = "PauseStart" -> 0
      [] SchedulePhase = "Scrolling" -> SCROLL_PAUSE
      [] SchedulePhase = "PauseEnd" -> SCROLL_PAUSE + ScrollDuration
      [] SchedulePhase = "Complete" -> CycleLength

\* Position of a phase in the cycle
PhaseRank(phase) ==
    CASE phase = "PauseStart" -> 1
      [] phase = "Scrolling" -> 2
      [] phase = "PauseEnd" -> 3
      [] phase = "Complete" -> 4

\* The phase that follows a phase
NextPhase(phase) ==
    CASE phase = "PauseStart" -> "Scrolling"
      [] phase = "Scrolling" -> "PauseEnd"
      [] phase = "PauseEnd" -> IF scroll_loop THEN "PauseStart" ELSE "Complete"
      [] phase = "Complete" -> "Complete"

DirectSlice ==
    GetVisibleSlice([text |-> scroll_text, phase |-> "PauseStart",
                     phaseStartTime |-> scroll_first],
                    scroll_text, scroll_width, scroll_now, scroll_loop).slice

\* C13: a call with an unchanged text leaves phaseStartTime as it is unless the
\* phase changes; the slice a call returns is the slice the same call returns when
\* no call was made since the first render; while Scrolling the offset of the slice
\* is the time since the phase started divided by the tick duration.
C13_ScrollIdempotent ==
    /\ [](Scrolls => scroll_slice = DirectSlice)
    /\ []((Scrolls /\ scroll_state.phase = "Scrolling") =>
            scroll_slice = SliceAt((scroll_now - scroll_state.phaseStartTime)
                                      \div SCROLL_TICK))
    /\ [][(/\ Scrolls /\ scroll_text' = scroll_text
           /\ scroll_state'.phase = scroll_state.phase
           /\ CycleStart' = CycleStart) =>
            scroll_state'.phaseStartTime = scroll_state.phaseStartTime]_vars

\* C13 witness: the third or a later call with the text finds the row Scrolling,
\* some characters in
C13_Witness ==
    /\ Scrolls /\ scroll_calls = 3
    /\ scroll_state.phase = "Scrolling"
    /\ scroll_slice # SliceAt(0)
    /\ scroll_slice = SliceAt(2)

\* C14: a call whose text differs from the text of the call before, the new text
\* overflowing the row, leaves the scroll state in PauseStart with phaseStartTime
\* the time of the call and returns the prefix of the new text that fits, whatever
\* phase the text before was in; a new text that fits the row is returned whole.
C14_TextChangeResets ==
    [][scroll_text' # scroll_text =>
         IF MeasureWidth(scroll_text') > scroll_width
         THEN /\ scroll_state' = [text |-> scroll_text', phase |-> "PauseStart",
                                  phaseStartTime |-> scroll_now']
              /\ scroll_slice' = SubSeq(scroll_text', 1, scroll_width \div 6)
         ELSE scroll_slice' = scroll_text']_vars

\* C14 witness: the text changed while the text before was Scrolling, some time
\* after the row was first rendered
C14_Witness ==
    /\ Scrolls /\ scroll_calls = 1
    /\ scroll_interrupted = "Scrolling"
    /\ scroll_now > SCROLL_PAUSE
    /\ scroll_state.phase = "PauseStart" /\ scroll_state.phaseStartTime = scroll_now
    /\ scroll_slice = SliceAt(0)

\* The offsets at which a slice occurs in the row's text
SliceOffsets(slice) == {o \in 0..MaxOffset : slice = SliceAt(o)}

\* C15: for a text wider than the row every slice shown is a contiguous substring of
\* the text, as long as fits the row; the slice at the first render and throughout
\* PauseStart is the prefix, the slice throughout PauseEnd, up to the last instant
\* of the cycle, is the suffix; while Scrolling a call one tick after another shows
\* the slice one character further on, a call less than a tick after another the
\* same slice or the slice one character further on.
C15_ScrollRoundTrip ==
    /\ [](Scrolls =>
            /\ SliceOffsets(scroll_slice) # {}
            /\ Len(scroll_slice) = Fit
            /\ (Elapsed = 0 \/ scroll_state.phase = "PauseStart") =>
                  scroll_slice = SubSeq(scroll_text, 1, Fit)
            /\ (CycleTime = CycleLength - 1 \/ scroll_state.phase = "PauseEnd") =>
                  scroll_slice = SubSeq(scroll_text, Len(scroll_text) - Fit + 1,
                                        Len(scroll_text)))
    /\ [][(/\ Scrolls /\ scroll_text' = scroll_text
           /\ CycleStart' = CycleStart
           /\ scroll_state.phase = "Scrolling"
           /\ scroll_state'.phase \in {"Scrolling", "PauseEnd"}) =>
            /\ scroll_now' - scroll_now = SCROLL_TICK =>
                  SliceOffsets(scroll_slice') = {o + 1 : o \in SliceOffsets(scroll_slice)}
            /\ scroll_now' - scroll_now < SCROLL_TICK =>
                  \E o \in SliceOffsets(scroll_slice) :
                     SliceOffsets(scroll_slice') \in {{o}, {o + 1}}]_vars

\* C15 witness: "YOU HAVE INFORMATION ALPHA " first rendered at time 0 and rendered
\* at the last instant of its first cycle, showing its suffix
C15_Witness ==
    /\ Scrolls /\ scroll_text = AtisText("A")
    /\ scroll_first = 0 /\ scroll_now = CycleLength - 1
    /\ scroll_state.phase = "PauseEnd"
    /\ scroll_slice = SliceAt(MaxOffset) /\ scroll_slice # SliceAt(0)

(***************************************************************************)
(* Claims about the text layout primitive                                  *)
(***************************************************************************)
\* C28: truncation is idempotent: truncating the result of a truncation to the
\* same width returns that result unchanged, for every text and width
C28_TruncationIdempotent ==
    (layout # <<>> /\ layout.again # None) => layout.again = layout.result

\* C28 witness: a text too wide for its row was cut to a shorter prefix followed by
\* the whole marker, and the result was truncated again
C28_Witness ==
    /\ layout # <<>>
    /\ layout.again # None
    /\ MeasureWidth(layout.text) > layout.maxPixels
    /\ Len(layout.result) > Len(ELLIPSIS)
    /\ Len(layout.result) < Len(layout.text)
    /\ SubSeq(layout.result, Len(layout.result) - 2, Len(layout.result)) = ELLIPSIS
    /\ layout.result[1] = "A"

(***************************************************************************)
(* Claims about the flight feed and the statistics                         *)
(***************************************************************************)
\* An entry that can be returned as a flight: not a bookkeeping key, a list of at
\* least 13 fields, its altitude a number strictly below MAX_APPROACH_ALTITUDE
Qualifies(e) ==
    /\ e.key \notin {"version", "full_count"}
    /\ e.list /\ e.len >= 13
    /\ e.numeric /\ e.altitude < MAX_APPROACH_ALTITUDE

\* An entry of at least 13 fields whose altitude cannot be compared
Malformed(e) ==
    e.key \notin {"version", "full_count"} /\ e.list /\ e.len >= 13 /\ ~e.numeric

\* Positions of the entries that qualify and that _parse_flight_data parses
Candidates(entries) ==
    {i \in DOMAIN entries :
        Qualifies(entries[i]) /\ ParseFlightData(i, entries[i]) # NoneData}

RowsOf(date) == {i \in DOMAIN tracker.flights : tracker.flights[i].date = date}

\* The origins recorded in the flights table
RecordedOrigins == {tracker.flights[i].origin : i \in DOMAIN tracker.flights} \ {""}

\* C37: in the database, whatever calls of record_flight by the two threads have
\* committed, failed or are in progress: each date with flights has a daily_stats
\* row whose total_planes is the number of flights rows of the date, whose
\* helicopters and private_jets are the numbers of rows so flagged and whose count
\* of each origin is the number of rows with that origin; a date without flights
\* has no row; and every committed call has its flights row.
C37_StatsConsistent ==
    tracker # <<>> =>
       /\ Len(tracker.flights) = tracker.committed
       /\ \A d \in DOMAIN tracker.daily_stats : RowsOf(d) # {}
       /\ \A i \in DOMAIN Dates :
             LET rows == RowsOf(Dates[i])
             IN rows # {} =>
                  /\ Dates[i] \in DOMAIN tracker.daily_stats
                  /\ LET s == tracker.daily_stats[Dates[i]]
                     IN /\ s.total_planes = Cardinality(rows)
                        /\ s.helicopters =
                              Cardinality({r \in rows : tracker.flights[r].is_helicopter})
                        /\ s.private_jets =
                              Cardinality({r \in rows : tracker.flights[r].is_private_jet})
                        /\ DOMAIN s.origins =
                              {tracker.flights[r].origin : r \in rows} \ {""}
                        /\ \A o \in DOMAIN s.origins :
                              s.origins[o] =
                                 Cardinality({r \in rows : tracker.flights[r].origin = o})

\* C37 witness: two calls for the same origin have committed on the first date;
\* after midnight one thread holds the lock with the row of a helicopter inserted
\* and counted but not committed, and the other thread waits for the lock
C37_Witness ==
    /\ tracker # <<>>
    /\ tracker.committed = 2
    /\ Cardinality(RowsOf(Dates[1])) = 2
    /\ tracker.daily_stats[Dates[1]].origins = [o \in {"ORD"} |-> 2]
    /\ tracker.daily_stats[Dates[1]].private_jets = 0
    /\ tracker.call[1].pc = "updated"
    /\ tracker.call[1].today = Dates[2]
    /\ tracker.call[1].is_helicopter /\ tracker.call[1].is_private_jet
    /\ tracker.call[2].pc = "waiting"

(***************************************************************************)
(* Claims about frames, the dirty set and drawing.                         *)
(***************************************************************************)
\* C31: the frame a screen operation leaves in the front buffer depends on its
\* argument alone: whatever operations came before, drawn or presented, it is the
\* frame the operation leaves on a controller just constructed, so no pixel of an
\* earlier frame remains and a repeated call leaves the same frame.
C31_RenderingHistoryIndependent ==
    /\ op = "show_flight_info" =>
          front_buffer = ShowFlightInfo(InitDC(FALSE), arg).front
    /\ op = "show_weather_info" =>
          front_buffer = ShowWeatherInfo(InitDC(FALSE), arg).front
    /\ op = "show_no_flights_message" =>
          front_buffer = ShowNoFlightsMessage(InitDC(FALSE)).front

\* C31 witness: show_flight_info was called as the third operation, after another
\* frame had been presented; that frame, now in the back buffer, is neither blank
\* nor the frame on display
C31_Witness ==
    /\ op = "show_flight_info" /\ nops >= 3
    /\ front_buffer # BlankBuffer
    /\ back_buffer # BlankBuffer
    /\ back_buffer # front_buffer

\* A controller with the buffers and the dirty set of the current one
SameFrame(S) ==
    /\ S.back = back_buffer
    /\ S.front = front_buffer
    /\ S.dirty = dirty_pixels

\* Coordinates next to the display on each side
OutsideCoords ==
    {<<-1, 0>>, <<DISPLAY_WIDTH, 0>>, <<0, -1>>, <<0, DISPLAY_HEIGHT>>,
     <<DISPLAY_WIDTH, DISPLAY_HEIGHT>>}

\* C32: after any sequence of operations every coordinate of the dirty set lies
\* inside the display, and from any such state set_pixel, text, icon, flag, region,
\* rectangle and line operations placed outside the display change neither buffer
\* and add nothing to the dirty set.
C32_DirtySetInBounds ==
    /\ dirty_pixels \subseteq Coords
    /\ \A c \in OutsideCoords :
          /\ SameFrame(SetPixelBuffer(DC, c[1], c[2], <<255, 0, 0>>))
          /\ SameFrame(AddDirtyRegion(DC, 2 * c[1], 2 * c[2], 1, 1))
    /\ SameFrame(DrawTextToBuffer(DC, <<"T">>, DISPLAY_WIDTH, 0, ROW_ONE_COLOR))
    /\ SameFrame(DrawTextToBuffer(DC, <<"T">>, -6, 0, ROW_ONE_COLOR))
    /\ SameFrame(DrawWeatherIconToBuffer(DC, "sunny", 0, DISPLAY_HEIGHT))
    /\ SameFrame(DrawCanadaFlag(DC, -13, 0))
    /\ \A filled \in BOOLEAN :
          SameFrame(DrawRectangle(DC, DISPLAY_WIDTH, DISPLAY_HEIGHT, 2, 2,
                                  <<255, 0, 0>>, filled))
    /\ SameFrame(DrawLine(DC, -2, -1, -1, -2, <<255, 255, 255>>))

\* C32 witness: a rectangle reaching over the right and the bottom edge was drawn
\* as the second operation on a controller that had pixels pending; the coordinates
\* of the rectangle inside the display are dirty
C32_Witness ==
    /\ op = "draw_rectangle" /\ nops = 2
    /\ Len(dirty_regions) = 1
    /\ dirty_regions[1][1] + dirty_regions[1][3] > DISPLAY_WIDTH
    /\ dirty_regions[1][2] + dirty_regions[1][4] > DISPLAY_HEIGHT
    /\ <<DISPLAY_WIDTH - 1, DISPLAY_HEIGHT - 1>> \in dirty_pixels
    /\ <<1, 0>> \in dirty_pixels

\* The operations that draw into the back buffer or mark a region
DrawingOps ==
    {"set_pixel", "draw_line", "draw_rectangle", "update_region", "draw_text",
     "draw_icon", "draw_flag"}

\* C33: a drawing operation leaves the front buffer as it is: get_pixel returns
\* the same colour for every coordinate before and after it, so until a swap the
\* presented frame stays; outside the display get_pixel returns (0, 0, 0).
C33_DrawingKeepsFront ==
    /\ [][op' \in DrawingOps =>
            /\ front_buffer' = front_buffer
            /\ \A c \in Coords \cup OutsideCoords :
                  GetPixel([DC EXCEPT !.front = front_buffer'], c[1], c[2])
                     = GetPixel(DC, c[1], c[2])]_vars
    /\ [][front_buffer' # front_buffer =>
            op' \in {"swap", "show_flight_info", "show_weather_info",
                     "show_no_flights_message"}]_vars
    /\ [](\A c \in OutsideCoords : GetPixel(DC, c[1], c[2]) = Black)

\* C33 witness: set_pixel has drawn into the back buffer while a frame that is not
\* blank is on display: the pixel is pending, and the two buffers differ there
C33_Witness ==
    /\ op = "set_pixel" /\ nops >= 2
    /\ front_buffer # BlankBuffer
    /\ <<1, 0>> \in dirty_pixels
    /\ back_buffer[0][1] \in PixelColors
    /\ GetPixel(DC, 1, 0) # back_buffer[0][1]

(***************************************************************************)
(* Claims about draw_line.                                                 *)
(***************************************************************************)
\* C38: draw_line returns for every pair of end points in and around the display
\* (equal, outside, horizontal, vertical, diagonal and all others); at its return
\* the pixels of both end points are set when they are in bounds, the loop ran
\* max(dx, dy) + 1 times and the back buffer is the one DrawLine gives; every
\* iteration moves x and y by 0 or 1 in the direction of the end point and never
\* past it, and moves at least one of them.
C38_DrawLineTerminates ==
    /\ <>[](line.pc = "returned")
    /\ [](line.pc = "returned" =>
             /\ line.x = line.x2 /\ line.y = line.y2
             /\ InBounds(line.x1, line.y1) => line.S.back[line.y1][line.x1] = LineColor
             /\ InBounds(line.x2, line.y2) => line.S.back[line.y2][line.x2] = LineColor
             /\ line.iterations = (IF line.dx > line.dy THEN line.dx ELSE line.dy) + 1
             /\ line.S = DrawLine(InitDC(FALSE), line.x1, line.y1, line.x2, line.y2,
                                  LineColor))
    /\ [][/\ line'.x \in {line.x, line.x + line.sx}
          /\ line'.y \in {line.y, line.y + line.sy}
          /\ Abs(line.x2 - line'.x) <= Abs(line.x2 - line.x)
          /\ Abs(line.y2 - line'.y) <= Abs(line.y2 - line.y)
          /\ line'.pc = "loop" => <<line'.x, line'.y>> # <<line.x, line.y>>]_vars

\* C38 witness: the line from above and left of the display to below and right of
\* it has returned: end points outside, shallow slope, pixels set on the way
C38_Witness ==
    /\ line # <<>>
    /\ line.pc = "returned"
    /\ <<line.x1, line.y1>> = <<0 - LineMargin, 0 - LineMargin>>
    /\ <<line.x2, line.y2>> = <<DISPLAY_WIDTH - 1 + LineMargin, DISPLAY_HEIGHT - 1 + LineMargin>>
    /\ ~InBounds(line.x2, line.y2)
    /\ line.S.dirty # {}

====
